---- MODULE Spec2Model ----
(***************************************************************************)
(* Model of the MLB player team-history upload job:                        *)
(*   functions/cron/uploadMLBPlayerTeamHistory/handler.ts  (handler,       *)
(*     validateDateParameters, processTransactions, fetchMLBTransactions)  *)
(*   functions/database.ts      (bulkInsertTeamHistory, catalog queries,   *)
(*     logCronExecution)                                                   *)
(*   functions/notifications.ts (success / error notifications)            *)
(*                                                                         *)
(* Spec        : runs of the handler, one step per awaited call.           *)
(* SpecProcess : processTransactions applied to bounded inputs.            *)
(***************************************************************************)
EXTENDS Integers, Sequences, FiniteSets, TLC

\* ------------------------------------------------------------------ bounds
\* Longest transaction list the external source returns in a handler run.
MaxTx == 3
\* Longest transaction list given to processTransactions in SpecProcess.
MaxProcTx == 3
\* Number of handler invocations in one behaviour.
MaxRuns == 2
\* Records per MERGE batch. The source uses 500 (database.ts:219); the model
\* scales it down so that several batches, and two records in one batch,
\* both happen with MaxTx records.
CHUNK_SIZE == 2
\* Webhook invocations in one behaviour of SpecQueue.
MaxUpdates == 2
\* Records in one batch handed to the message consumer.
MaxBatch == 2
\* Batches of SpecQueue that fail and are delivered again.
MaxRedeliveries == 1
\* SpecRegister: the words after /register, and the characters of an error
\* message.
MaxWords == 3
MaxErrLen == 3
\* Longest transaction list of each of the two runs of SpecConcurrent.
MaxConcTx == 3
\* Longest record list given to the batch loop in SpecChunk: two full
\* chunks of the deployed size and one record more.
MaxChunkRecords == 1001

\* ------------------------------------------------------- program constants
\* handler.ts:165-166, description.substring(0, 255)
MAX_DESCRIPTION == 255

\* database.ts:219, the chunk size of bulkInsertTeamHistory as deployed.
DEPLOYED_CHUNK_SIZE == 500
\* database.ts:239-242, the parameters bound for one record.
PARAMS_PER_RECORD == 4

\* handler.ts:22, API_TIMEOUT in milliseconds.
API_TIMEOUT == 30000

\* ------------------------------------------------------------ JS values
\* null / undefined of a numeric field (person?.id, toTeam?.id, id).
NoValue == -1
\* NaN: the time value of an invalid Date, parseInt of a non-number.
NaN == -2

\* JavaScript falsiness of a numeric field: undefined, null and 0 are falsy.
Falsy(x) == x = NoValue \/ x = 0

\* ------------------------------------------------------------ date strings
\* A date string is [iso, m, d]: iso says the text has the shape dddd-dd-dd
\* (year 2024 throughout), m and d are the numbers written in it.
DateStr(i, m, d) == [iso |-> i, m |-> m, d |-> d]

\* Days of 2024 before the first of each month.
DaysBeforeMonth == <<0, 31, 60, 91, 121, 152, 182, 213, 244, 274, 305, 335>>

\* /^\d{4}-\d{2}-\d{2}$/.test(s)
dateRegexTest(s) == s.iso

\* new Date(s).getTime() in days since 2023-12-31, NaN when the text does
\* not parse. V8 accepts month 1..12 and day 1..31 and lets a day past the
\* end of the month run into the next one.
DateParse(s) ==
    IF s.iso /\ s.m \in 1..12 /\ s.d \in 1..31
    THEN DaysBeforeMonth[s.m] + s.d
    ELSE NaN

\* date.toISOString().split('T')[0] of a valid Date (day number n).
FormatDay(n) ==
    LET m == CHOOSE k \in 1..12 :
                 /\ DaysBeforeMonth[k] < n
                 /\ (k = 12 \/ n <= DaysBeforeMonth[k + 1])
    IN  DateStr(TRUE, m, n - DaysBeforeMonth[m])

\* ------------------------------------------------------------ decimal text
\* String(n) of a non-negative integer, as its sequence of digits.
RECURSIVE ToDigits(_)
ToDigits(n) == IF n < 10 THEN <<n>> ELSE Append(ToDigits(n \div 10), n % 10)

\* parseInt(text, 10) of a digit sequence; NaN for the empty text.
RECURSIVE ParseIntDigits(_)
ParseIntDigits(t) ==
    IF Len(t) = 0 THEN NaN
    ELSE IF Len(t) = 1 THEN t[1]
    ELSE 10 * ParseIntDigits(SubSeq(t, 1, Len(t) - 1)) + t[Len(t)]

\* teamIds.join(','): the comma separated text, kept as its fields.
JoinCsv(ids) == [i \in 1..Len(ids) |-> ToDigits(ids[i])]

\* new Set(csv.split(',').map(id => parseInt(id, 10))); ''.split(',') is ['']
ParseTeamIds(csv) ==
    IF Len(csv) = 0 THEN {NaN}
    ELSE {ParseIntDigits(csv[i]) : i \in 1..Len(csv)}

\* --------------------------------------------------------- raw transactions
Tx(id, person, team, date, desc) ==
    [isNull |-> FALSE, id |-> id, personId |-> person, toTeamId |-> team,
     date |-> date, description |-> desc]

\* A null element of the transactions array.
NullTx ==
    [isNull |-> TRUE, id |-> NoValue, personId |-> NoValue,
     toTeamId |-> NoValue, date |-> [iso |-> FALSE, m |-> 0, d |-> 0],
     description |-> <<>>]

D1 == DateStr(TRUE, 4, 1)
D2 == DateStr(TRUE, 4, 2)
\* The empty text (an absent or empty field).
Absent == DateStr(FALSE, 0, 0)
\* A text that holds no date ("n/a").
BadDate == DateStr(FALSE, 0, 1)
\* "2024-13-01": the right shape, no such month.
UnparsableDate == DateStr(TRUE, 13, 1)

ShortDesc == <<"t">>
OtherDesc == <<"s">>
\* A description of 300 characters whose first 255 differ from the rest.
LongDesc == [i \in 1..300 |-> IF i <= 255 THEN "a" ELSE "b"]

\* ---------------------------------------------------- processTransactions
\* First pass (handler.ts:129-176): TRUE when the record passes every
\* `continue` test.
PassesFilter(t, validPlayers, validTeamIds) ==
    /\ ~Falsy(t.personId)
    /\ t.personId \in validPlayers
    /\ ~Falsy(t.toTeamId)
    /\ t.toTeamId \in validTeamIds
    /\ DateParse(t.date) # NaN
    /\ ~Falsy(t.id)

\* Mutant of TruncateDescription: the cut is one character short.
TruncateOneShort(desc) ==
    IF Len(desc) > MAX_DESCRIPTION THEN SubSeq(desc, 1, MAX_DESCRIPTION - 1) ELSE desc

\* handler.ts:163-167
TruncateDescription(desc) ==
    IF Len(desc) > MAX_DESCRIPTION THEN SubSeq(desc, 1, MAX_DESCRIPTION) ELSE desc

\* handler.ts:169-175
Project(t) ==
    [MLBPlayer |-> t.personId, Date |-> DateParse(t.date),
     MLBTeam |-> t.toTeamId, Description |-> TruncateDescription(t.description),
     transactionId |-> t.id]

\* The loop of the first pass over the whole list.
RECURSIVE Candidates(_, _, _)
Candidates(txs, validPlayers, validTeamIds) ==
    IF Len(txs) = 0 THEN <<>>
    ELSE LET rest == Candidates(Tail(txs), validPlayers, validTeamIds)
         IN  IF PassesFilter(Head(txs), validPlayers, validTeamIds)
             THEN <<Project(Head(txs))>> \o rest
             ELSE rest

\* transaction.person on a null element throws a TypeError (handler.ts:131).
ProcessThrows(txs) == \E i \in 1..Len(txs) : txs[i].isNull

\* handler.ts:182, the key of the deduplication map.
DedupKey(r) == <<r.MLBPlayer, FormatDay(r.Date), r.MLBTeam>>

\* handler.ts:185
Replaces(r, existing) == r.transactionId > existing.transactionId

\* handler.ts:183-188, one iteration on the map kept in insertion order.
DedupStep(map, r) ==
    IF \E i \in 1..Len(map) : DedupKey(map[i]) = DedupKey(r)
    THEN LET i == CHOOSE j \in 1..Len(map) : DedupKey(map[j]) = DedupKey(r)
         IN  IF Replaces(r, map[i]) THEN [map EXCEPT ![i] = r] ELSE map
    ELSE Append(map, r)

RECURSIVE DedupFold(_, _)
DedupFold(map, cands) ==
    IF Len(cands) = 0 THEN map
    ELSE DedupFold(DedupStep(map, Head(cands)), Tail(cands))

\* handler.ts:193-198
StripId(r) ==
    [MLBPlayer |-> r.MLBPlayer, Date |-> r.Date, MLBTeam |-> r.MLBTeam,
     Description |-> r.Description]

\* Survivors of the second pass, still carrying their transaction id.
Survivors(cands) == DedupFold(<<>>, cands)

\* processTransactions (handler.ts:118-207) on a list without null element.
processTransactions(txs, validPlayers, validTeamsCsv) ==
    LET s == Survivors(Candidates(txs, validPlayers, ParseTeamIds(validTeamsCsv)))
    IN  [i \in 1..Len(s) |-> StripId(s[i])]

\* --------------------------------------------------- bulkInsertTeamHistory
Min(a, b) == IF a < b THEN a ELSE b

\* Mutant of Slice: the end of the slice is one element too far.
SliceOneTooFar(recs, i, size) == SubSeq(recs, i, Min(i + size, Len(recs)))

\* records.slice(i, i + size) with i counted from 1 (database.ts:228).
Slice(recs, i, size) == SubSeq(recs, i, Min(i + size - 1, Len(recs)))

\* The chunk of the batch loop that starts at i, in the handler model.
Chunk(recs, i) == Slice(recs, i, CHUNK_SIZE)

\* The number of request.input calls for one chunk: four per record
\* (database.ts:238-243).
BoundParameters(chunk) == PARAMS_PER_RECORD * Len(chunk)

\* ON target.MLBPlayer = source.MLBPlayer AND target.Date = source.Date
\* (database.ts:249)
Matches(row, s) == row.MLBPlayer = s.MLBPlayer /\ row.Date = s.Date

\* The source rows of a chunk that match a target row.
MatchesOf(row, chunk) == {j \in 1..Len(chunk) : Matches(row, chunk[j])}

\* MERGE fails when one target row is matched by more than one source row
\* (SQL Server error 8672).
MergeAmbiguous(tbl, chunk) ==
    \E i \in 1..Len(tbl) : Cardinality(MatchesOf(tbl[i], chunk)) > 1

\* WHEN MATCHED THEN UPDATE SET MLBTeam, Description (database.ts:250-251)
UpdateRow(row, s) ==
    [row EXCEPT !.MLBTeam = s.MLBTeam, !.Description = s.Description]

\* WHEN NOT MATCHED THEN INSERT (database.ts:252-254): the source rows that
\* match no target row, all of them.
Unmatched(tbl, chunk) ==
    SelectSeq(chunk, LAMBDA s : \A i \in 1..Len(tbl) : ~Matches(tbl[i], s))

\* Mutant of MergeTable: the statement also has WHEN NOT MATCHED BY SOURCE
\* THEN DELETE, so the target rows that no source row matches are removed.
MergeTableDeletesUnmatched(tbl, chunk) ==
    SelectSeq([i \in 1..Len(tbl) |->
                  IF MatchesOf(tbl[i], chunk) = {} THEN tbl[i]
                  ELSE UpdateRow(tbl[i],
                           chunk[CHOOSE j \in MatchesOf(tbl[i], chunk) : TRUE])],
              LAMBDA row : MatchesOf(row, chunk) # {})
    \o Unmatched(tbl, chunk)

\* The target table after one MERGE statement that does not fail.
MergeTable(tbl, chunk) ==
    [i \in 1..Len(tbl) |->
        IF MatchesOf(tbl[i], chunk) = {} THEN tbl[i]
        ELSE UpdateRow(tbl[i], chunk[CHOOSE j \in MatchesOf(tbl[i], chunk) : TRUE])]
    \o Unmatched(tbl, chunk)

\* OUTPUT $action (database.ts:255, 264-270): one row per affected target row.
ChunkUpdated(tbl, chunk) ==
    Cardinality({i \in 1..Len(tbl) : MatchesOf(tbl[i], chunk) # {}})
ChunkInserted(tbl, chunk) == Len(Unmatched(tbl, chunk))

\* Two rows of a table with the same (MLBPlayer, Date).
HasDuplicateKey(tbl) ==
    \E i, j \in 1..Len(tbl) : i # j /\ Matches(tbl[i], tbl[j])

\* database.ts:278, transaction.commit(): the rows of the transaction become
\* the rows of the table.
Committed(before, working) == working

\* Mutant of RolledBack: the batches already applied stay in the table (the
\* requests run on the pool, outside the transaction).
RolledBackKeepsBatches(before, working) == working

\* database.ts:289-292 and 297-304: rollback, or the close of the connection
\* of an open transaction, leaves the table as it was before the begin.
RolledBack(before, working) == before

\* --------------------------------------------------------- date validation
\* Mutant of validateDateParameters: the comparison of the two dates is
\* left out.
validateWithoutOrder(startDate, endDate) ==
    IF ~dateRegexTest(startDate) THEN "InvalidStartDateFormat"
    ELSE IF ~dateRegexTest(endDate) THEN "InvalidEndDateFormat"
    ELSE IF DateParse(startDate) = NaN THEN "InvalidStartDate"
    ELSE IF DateParse(endDate) = NaN THEN "InvalidEndDate"
    ELSE "none"

\* validateDateParameters (handler.ts:27-55): the error it throws, or "none".
validateDateParameters(startDate, endDate) ==
    IF ~dateRegexTest(startDate) THEN "InvalidStartDateFormat"
    ELSE IF ~dateRegexTest(endDate) THEN "InvalidEndDateFormat"
    ELSE IF DateParse(startDate) = NaN THEN "InvalidStartDate"
    ELSE IF DateParse(endDate) = NaN THEN "InvalidEndDate"
    ELSE IF DateParse(startDate) > DateParse(endDate) THEN "StartAfterEnd"
    ELSE "none"

InvalidDateRangeErrors ==
    {"InvalidStartDateFormat", "InvalidEndDateFormat", "InvalidStartDate",
     "InvalidEndDate", "StartAfterEnd"}

\* new Date() of getYesterday / getTomorrow, as a day of 2024 (2 April).
Today == 93

\* handler.ts:60-64, on the day `day`
getYesterdayOn(day) == FormatDay(day - 1)
\* handler.ts:69-73, on the day `day`
getTomorrowOn(day) == FormatDay(day + 1)

\* handler.ts:60-64
getYesterday == getYesterdayOn(Today)
\* handler.ts:69-73
getTomorrow == getTomorrowOn(Today)

\* Mutant of OrDefault: the fallback is left out.
OrDefaultNever(x, fallback) == x

\* `x || fallback` on a string (handler.ts:228-233): the empty or absent
\* text is falsy.
OrDefault(x, fallback) == IF x = Absent THEN fallback ELSE x

\* The trigger payload (MLBUploadEvent) and the two variables of the
\* process environment that the handler reads.
Event(sd, ed) == [startDate |-> sd, endDate |-> ed]
ProcessEnv(sd, ed) == [START_DATE |-> sd, END_DATE |-> ed]
NoEvent == Event(Absent, Absent)
NoProcessEnv == ProcessEnv(Absent, Absent)

\* handler.ts:226-234: where the handler reads each bound from.
StartSource(env, ev, penv) ==
    IF env = "local" THEN penv.START_DATE ELSE ev.startDate
EndSource(env, ev, penv) ==
    IF env = "local" THEN penv.END_DATE ELSE ev.endDate

\* ------------------------------------------------------------ notifications
\* Mutant of SkipsNotification: the local environment publishes too.
PublishesEverywhere(env) == FALSE

\* notifications.ts:14 and 59: nothing is published in the local environment.
SkipsNotification(env) == env = "local"

\* Mutant of SuccessPublishThrows: the publish is not wrapped in try/catch.
SuccessPublishPropagates(delivered) == ~delivered

\* notifications.ts:38-49: a failed publish of the success notification is
\* caught and logged; the function returns.
SuccessPublishThrows(delivered) == FALSE

\* notifications.ts:77-88: the same for the error notification.
ErrorPublishThrows(delivered) == FALSE

\* ------------------------------------------------------------------ handler
\* --------------------------------------------------- fetchMLBTransactions
\* Milliseconds the transaction source takes to send its response headers,
\* and then to send its body.
FetchDelays == {10000, 20000, 40000}
\* The HTTP status of the response; 0 when fetch() rejects because no
\* response could be had.
Statuses == {0, 200, 500}
\* The body of the response: a JSON object with a transactions field, a
\* JSON object without one, or text that is not JSON.
Bodies == {"json", "nolist", "garbage"}

\* How the transaction source answers one request.
FetchInputs ==
    [headerMs : FetchDelays, status : Statuses, bodyMs : FetchDelays,
     body : Bodies]

NoFetchInput == [headerMs |-> 0, status |-> 0, bodyMs |-> 0, body |-> "none"]

\* handler.ts:87-88, 97: the timer set before fetch() aborts the request
\* when it is still set after API_TIMEOUT; clearTimeout runs as soon as
\* fetch() has resolved, which is when the headers have arrived.
TimerFires(headerMs) == headerMs >= API_TIMEOUT

\* Mutant of ResponseOk: the status is not looked at.
ResponseOkAlways(status) == TRUE

\* handler.ts:99, response.ok
ResponseOk(status) == status \in 200..299

\* How a call of fetchMLBTransactions ended: the error thrown ("none" when
\* it returned), the status received (0 when none was), the time until it
\* returned or threw, whether the timer aborted the request, and the body
\* that was read.
FetchOutcome(e, status, ms, aborted, body) ==
    [error |-> e, status |-> status, elapsedMs |-> ms, aborted |-> aborted,
     body |-> body]

NoFetchOutcome == FetchOutcome("none", 0, 0, FALSE, "none")

\* fetchMLBTransactions (handler.ts:78-113) against a source that answers as
\* `in` says: the timer aborts a request whose headers have not arrived
\* (87-88); fetch() rejects without a response (catch, 106-112); the timer
\* is cleared (97); a status that is not ok throws (99-101); the body is
\* read and parsed with no timer running (103).
fetchMLBTransactions(in) ==
    IF TimerFires(in.headerMs)
    THEN FetchOutcome("FetchTimeout", 0, API_TIMEOUT, TRUE, "none")
    ELSE IF in.status = 0
    THEN FetchOutcome("NetworkError", 0, in.headerMs, FALSE, "none")
    ELSE IF ~ResponseOk(in.status)
    THEN FetchOutcome("HttpError", in.status, in.headerMs, FALSE, "none")
    ELSE IF in.body = "garbage"
    THEN FetchOutcome("JsonError", in.status, in.headerMs + in.bodyMs, FALSE,
                      "garbage")
    ELSE FetchOutcome("none", in.status, in.headerMs + in.bodyMs, FALSE,
                      in.body)

\* The ways a call of fetchMLBTransactions can end.
FetchOutcomes == {fetchMLBTransactions(in) : in \in FetchInputs}

\* What the handler sees of a call: everything but the time it took.
FetchTrace(out) ==
    [error |-> out.error, status |-> out.status, aborted |-> out.aborted,
     body |-> out.body]

NoFetch == FetchTrace(NoFetchOutcome)

\* What the handler can see of its call of fetchMLBTransactions.
FetchTraces == {FetchTrace(out) : out \in FetchOutcomes}

\* handler.ts:249, `!validTeamsCsv`: the empty text is falsy.
NoValidTeams(csv) == Len(csv) = 0

\* Mutant of NoValidPlayers: the size check is missing.
NoValidPlayersUnchecked(players) == FALSE

\* handler.ts:259, validPlayers.size === 0
NoValidPlayers(players) == Cardinality(players) = 0

\* Mutant of EarlyExit: the empty check is missing.
NeverEarlyExit(txs) == FALSE

\* handler.ts:269
EarlyExit(txs) == Len(txs) = 0

\* Mutant of CallsUpsert: the upsert is called whatever the filter left.
CallsUpsertAlways(recs) == TRUE

\* handler.ts:310, bulkInsertTeamHistory is called only when
\* teamHistoryRecords.length > 0.
CallsUpsert(recs) == Len(recs) > 0

\* Mutant of ThrowTarget: fetchMLBTransactions swallows its error and the
\* handler goes on to the upsert.
ThrowTargetFetchSwallowed(stage) == IF stage = "fetch" THEN "connect" ELSE "catch"

\* Mutant of ThrowTarget: a throw ends the run without passing through the
\* catch block.
ThrowTargetSkipsCatch(stage) == "done"

\* Mutant of ThrowTarget: a throw leaves the handler hanging.
ThrowTargetNowhere(stage) == "hung"

\* handler.ts:218 and 352: a throw anywhere in the try block transfers
\* control to the catch block of the handler.
ThrowTarget(stage) == "catch"

\* Mutant of CatchRethrows: the catch block ends without `throw error`.
CatchSwallows == FALSE

\* handler.ts:364: the catch block re-throws the error it caught.
CatchRethrows == TRUE

\* -------------------------------------------------------------------- state
VARIABLES
    pc,             \* where the handler is: idle, audit, window, teams, ...
    runs,           \* invocations started so far
    environment,    \* getEnvironmentType(): "local" or "lambda"
    startInput,     \* the start date the handler is given (event or process.env)
    endInput,       \* the end date the handler is given
    startDate,      \* the resolved window
    endDate,
    keyEnforced,    \* whether MLBPlayer_TeamHistory has a unique (MLBPlayer, Date) key
    auditLog,       \* rows of dbo._CronLogins
    validTeamsCsv,  \* fetchValidMLBTeamsCSV()
    validPlayers,   \* fetchValidMLBPlayers()
    transactions,   \* apiResponse.transactions
    records,        \* teamHistoryRecords
    table,          \* committed rows of MLBPlayer_TeamHistory
    work,           \* the rows as the open transaction sees them
    chunkStart,     \* i of the batch loop, counted from 1
    totalInserted,
    totalUpdated,
    batchesApplied, \* batches of this run whose MERGE succeeded
    error,          \* the error being thrown, "none" when there is none
    failedAt,       \* the stage that threw it
    notifications,  \* publishes attempted in this run
    result,         \* what the invocation returned or threw
    tableBefore,    \* table when this run started
    upsertCalled,   \* bulkInsertTeamHistory was called in this run
    processCalled,  \* processTransactions was called in this run
    fetchCount,     \* requests issued to the transaction source in this run
    mergeFailed,    \* a batch or the commit of this run failed
    replay,         \* this run repeats the previous one on unchanged sources
    last,           \* what the previous run saw, when this run repeats it
    batches,        \* the chunks sent to the MERGE in this run, in order
    fetchTrace,     \* what the request to the transaction source went through
    connOpened,     \* database connections opened in this run
    connOpen,       \* connections of this run not yet handed to close()
    lockRows,       \* SpecConcurrent: rows of the table with their locks
    upserts,        \* SpecConcurrent: the bulkInsertTeamHistory calls of two runs
    commitOrder,    \* SpecConcurrent: the runs in the order of their commits
    fetchInput,     \* SpecFetch: how the transaction source answers
    fetchOutcome,   \* SpecFetch: how fetchMLBTransactions ended
    event,          \* SpecWindow: the payload of the trigger
    processEnv,     \* SpecWindow: START_DATE and END_DATE of the process
    now,            \* SpecWindow: the day on which the handler runs
    accepted,       \* SpecQueue: the updates the webhook sent to the queue, in order
    queue,          \* SpecQueue: the messages of the FIFO queue
    dedupSeen,      \* SpecQueue: the deduplication ids the queue has seen
    consumers,      \* SpecQueue: the invocations of the message consumer
    handled,        \* SpecQueue: the updates bot.handleUpdate has completed, in order
    webhookResponse, \* SpecQueue: what the last webhook invocation returned
    messageText,    \* SpecRegister: the text of the /register message
    replies,        \* SpecRegister: the texts handed to ctx.reply, in order
    registration    \* SpecRegister: what the call of registerUser did

\* ------------------------------------------------------ Telegram pipeline
\* Telegram users.
Users == {1, 2}
\* The kinds of update: a message, a pressed button, an edited message (one
\* of the kinds that carry neither `message` nor `callback_query`).
UpdateKinds == {"message", "callback_query", "edited_message"}

\* A Telegram update: its update_id, what it carries, the user it comes
\* from, and the id of the message or of the callback query.
Update(n, kind, from, id) ==
    [update_id |-> n, kind |-> kind, from |-> from, id |-> id]

\* The group of the updates whose sender the webhook does not find.
UnknownUser == 0

\* webhook.ts:36, update.message?.message_id || update.callback_query?.id ||
\* Date.now().toString(); the ids of callback queries are not message ids,
\* and the clock gives a value of its own to each invocation.
MessageIdOf(u) ==
    IF u.kind = "message" THEN u.id
    ELSE IF u.kind = "callback_query" THEN 10 + u.id
    ELSE 1000 + u.update_id

\* Mutant of UserIdOf: the group is taken from the message id.
UserIdFromMessage(u) == MessageIdOf(u)

\* webhook.ts:37, update.message?.from?.id ||
\* update.callback_query?.from?.id || "unknown"
UserIdOf(u) ==
    IF u.kind \in {"message", "callback_query"} THEN u.from ELSE UnknownUser

\* webhook.ts:43-48, the SendMessageCommand for an update.
SqsMessage(u) ==
    [group |-> UserIdOf(u), dedupId |-> MessageIdOf(u), update |-> u,
     owner |-> 0]

\* event.body of a webhook request: absent, text that is not JSON, the JSON
\* text "null", or an update.
WebhookBody(kind, u) == [kind |-> kind, update |-> u]
NoUpdate == Update(0, "none", 0, 0)

\* What the n-th invocation of the webhook was given and returned, and how
\* many of its SendMessage calls returned.
Response(n, body, code, sent) ==
    [n |-> n, body |-> body, statusCode |-> code, sent |-> sent]
NoResponse == Response(0, "none", 0, 0)

\* Mutant of StatusAfterSend: 200 whatever became of the send.
StatusAlwaysOk(out) == 200

\* webhook.ts:52-60 and 61-75: 200 after sqs.send returned, 500 from the
\* catch block when it threw.
StatusAfterSend(out) == IF out = "ok" THEN 200 ELSE 500

\* registerUser has not been called.
NoRegistration ==
    [calls |-> 0, opened |-> 0, closed |-> 0, threw |-> FALSE,
     success |-> FALSE, failed |-> "none", error |-> <<>>, message |-> <<>>]

\* The invocations of the message consumer that run at the same time.
Consumers == {1, 2}
IdleConsumer == [batch |-> <<>>, pos |-> 0]

\* The variables of the Telegram pipeline (webhook, queue, consumer).
RegisterVars == <<messageText, replies, registration>>

PipelineVars ==
    <<accepted, queue, dedupSeen, consumers, handled, webhookResponse,
      RegisterVars>>

vars ==
    <<pc, runs, environment, startInput, endInput, startDate, endDate,
      keyEnforced, auditLog, validTeamsCsv, validPlayers, transactions,
      records, table, work, chunkStart, totalInserted, totalUpdated,
      batchesApplied, error, failedAt, notifications, result, tableBefore,
      upsertCalled, processCalled, fetchCount, mergeFailed, replay, last,
      batches, fetchTrace, connOpened, connOpen, lockRows,
      upserts, commitOrder, fetchInput, fetchOutcome, event, processEnv,
      now, PipelineVars>>

\* The variables of the handler model, which SpecConcurrent leaves alone.
HandlerVars ==
    <<pc, runs, environment, startInput, endInput, startDate, endDate,
      keyEnforced, auditLog, validTeamsCsv, validPlayers, transactions,
      records, table, work, chunkStart, totalInserted, totalUpdated,
      batchesApplied, error, failedAt, notifications, result, tableBefore,
      upsertCalled, processCalled, fetchCount, mergeFailed, replay, last,
      batches, fetchTrace, connOpened, connOpen>>

\* The same without the position of the handler.
HandlerRest ==
    <<runs, environment, startInput, endInput, startDate, endDate,
      keyEnforced, auditLog, validTeamsCsv, validPlayers, transactions,
      records, table, work, chunkStart, totalInserted, totalUpdated,
      batchesApplied, error, failedAt, notifications, result, tableBefore,
      upsertCalled, processCalled, fetchCount, mergeFailed, replay, last,
      batches, fetchTrace, connOpened, connOpen>>

\* ------------------------------------------------------------------- inputs
TxA == Tx(10, 7, 141, D1, ShortDesc)
TxB == Tx(20, 7, 147, D1, OtherDesc)
TxD == Tx(30, 7, 141, D2, ShortDesc)
\* A player that is in no catalog.
TxX == Tx(40, 9, 141, D1, ShortDesc)

\* What the transaction source returns in a handler run.
HandlerTxUniverse == {TxA, TxB, TxD, TxX, NullTx}
HandlerTxLists == UNION {[1..n -> HandlerTxUniverse] : n \in 0..MaxTx}

\* What processTransactions is applied to in SpecProcess: the records that
\* pass the filter under the larger catalog, and one record for each way of
\* failing it.
ProcTxUniverse ==
    {Tx(id, 7, t, d, ds) : id \in {10, 20}, t \in {141, 147}, d \in {D1, D2},
                           ds \in {ShortDesc, LongDesc}}
    \cup {Tx(0, 7, 141, D1, ShortDesc), Tx(NoValue, 7, 141, D1, ShortDesc),
          Tx(10, NoValue, 141, D1, ShortDesc), Tx(10, 0, 141, D1, ShortDesc),
          Tx(10, 9, 141, D1, ShortDesc), Tx(10, 7, NoValue, D1, ShortDesc),
          Tx(10, 7, 141, BadDate, ShortDesc),
          Tx(10, 7, 141, UnparsableDate, ShortDesc), NullTx}
ProcTxLists == UNION {[1..n -> ProcTxUniverse] : n \in 0..MaxProcTx}

TeamLists == {<<>>, <<141, 147>>}
ProcTeamLists == {<<141>>, <<141, 147>>}
PlayerSets == {{}, {7}}

StartInputs == {Absent, DateStr(TRUE, 4, 3), BadDate, UnparsableDate}
EndInputs == {Absent, D1, BadDate, UnparsableDate}

NoResult ==
    [status |-> "none", error |-> "none", transactionsFound |-> 0,
     recordsProcessed |-> 0, recordsInserted |-> 0, recordsUpdated |-> 0,
     totalDbOperations |-> 0]

NoLast == [transactions |-> <<>>, teams |-> <<>>, players |-> {}, table |-> <<>>]

\* The variables of one run, as a run finds them.
RunLocalsInit ==
    /\ startDate = Absent
    /\ endDate = Absent
    /\ validTeamsCsv = <<>>
    /\ validPlayers = {}
    /\ transactions = <<>>
    /\ records = <<>>
    /\ work = <<>>
    /\ chunkStart = 1
    /\ totalInserted = 0
    /\ totalUpdated = 0
    /\ batchesApplied = 0
    /\ error = "none"
    /\ failedAt = "none"
    /\ notifications = <<>>
    /\ result = NoResult
    /\ upsertCalled = FALSE
    /\ processCalled = FALSE
    /\ fetchCount = 0
    /\ mergeFailed = FALSE
    /\ batches = <<>>
    /\ fetchTrace = NoFetch
    /\ connOpened = 0
    /\ connOpen = 0

\* The same in the state a new invocation starts in.
RunLocalsReset ==
    /\ startDate' = Absent
    /\ endDate' = Absent
    /\ validTeamsCsv' = <<>>
    /\ validPlayers' = {}
    /\ transactions' = <<>>
    /\ records' = <<>>
    /\ work' = <<>>
    /\ chunkStart' = 1
    /\ totalInserted' = 0
    /\ totalUpdated' = 0
    /\ batchesApplied' = 0
    /\ error' = "none"
    /\ failedAt' = "none"
    /\ notifications' = <<>>
    /\ result' = NoResult
    /\ upsertCalled' = FALSE
    /\ processCalled' = FALSE
    /\ fetchCount' = 0
    /\ mergeFailed' = FALSE
    /\ batches' = <<>>
    /\ fetchTrace' = NoFetch
    /\ connOpened' = 0
    /\ connOpen' = 0

Init ==
    /\ pc = "idle"
    /\ runs = 0
    /\ environment = "lambda"
    /\ startInput = Absent
    /\ endInput = Absent
    /\ keyEnforced \in BOOLEAN
    /\ auditLog = 0
    /\ table = <<>>
    /\ tableBefore = <<>>
    /\ replay = FALSE
    /\ last = NoLast
    /\ RunLocalsInit
    /\ lockRows = <<>>
    /\ upserts = <<>>
    /\ commitOrder = <<>>
    /\ fetchInput = NoFetchInput
    /\ fetchOutcome = NoFetchOutcome
    /\ event = NoEvent
    /\ processEnv = NoProcessEnv
    /\ now = Today
    /\ accepted = <<>>
    /\ queue = <<>>
    /\ dedupSeen = {}
    /\ consumers = <<>>
    /\ handled = <<>>
    /\ webhookResponse = NoResponse
    /\ messageText = <<>>
    /\ replies = <<>>
    /\ registration = NoRegistration

\* -------------------------------------------------------------- connections
\* Mutant of FinallyCloses: an error path leaves without closing.
FinallySkipsCloseOnError(threw) == ~threw

\* The finally block of every database function (database.ts:161-169,
\* 190-198, 297-304, 346-354): it runs whether or not the body threw, and
\* closes the pool that was opened.
FinallyCloses(threw) == TRUE

\* The finally block of a function whose body threw or returned: close()
\* is called on the pool; an error of close() itself is caught and logged
\* there (database.ts:299-303) and changes nothing in the handler.
CloseInFinally(threw) ==
    connOpen' = IF FinallyCloses(threw) THEN connOpen - 1 ELSE connOpen

\* A database function that connects, runs one query and closes within one
\* await of the handler: createDatabaseConnection either throws, and there
\* is nothing to close, or it opens a connection that the finally block
\* closes.
UseConnection(connected, threw) ==
    IF ~connected
    THEN UNCHANGED <<connOpened, connOpen>>
    ELSE /\ connOpened' = connOpened + 1
         /\ connOpen' = IF FinallyCloses(threw) THEN connOpen
                         ELSE connOpen + 1

\* How a function that runs one query ends.
QueryOutcomes == {"connectFailed", "queryFailed", "ok"}

\* ------------------------------------------------------------------ actions
\* The scheduler (or a developer) invokes the handler (handler.ts:209-216).
\* A replay gives the handler what the previous, successful, invocation was
\* given.
Invoke ==
    /\ pc = "idle"
    /\ runs < MaxRuns
    /\ \E env \in {"local", "lambda"}, si \in StartInputs, ei \in EndInputs,
          rp \in BOOLEAN :
        /\ rp => /\ last # NoLast
                 /\ env = environment /\ si = startInput /\ ei = endInput
        /\ environment' = env
        /\ startInput' = si
        /\ endInput' = ei
        /\ replay' = rp
        /\ last' = IF rp THEN last ELSE NoLast
    /\ pc' = "audit"
    /\ runs' = runs + 1
    /\ tableBefore' = table
    /\ RunLocalsReset
    /\ UNCHANGED <<keyEnforced, auditLog, table, lockRows, upserts, commitOrder,
                   fetchInput, fetchOutcome,
                   event, processEnv, now,
                   PipelineVars>>

\* The invocation is over (handler.ts:288-301, 337-350, 364): its locals are
\* gone; what a successful invocation read is kept for a replay.
Return ==
    /\ pc = "done"
    /\ runs < MaxRuns
    /\ pc' = "idle"
    /\ replay' = FALSE
    /\ last' = IF result.status = "success"
               THEN [transactions |-> transactions, teams |-> validTeamsCsv,
                     players |-> validPlayers, table |-> table]
               ELSE NoLast
    /\ tableBefore' = table
    /\ RunLocalsReset
    /\ UNCHANGED <<runs, environment, startInput, endInput, keyEnforced,
                   auditLog, table, lockRows, upserts, commitOrder,
                   fetchInput, fetchOutcome,
                   event, processEnv, now,
                   PipelineVars>>

\* The control transfer of a throw (handler.ts:352).
Throw(stage, e) ==
    /\ error' = e
    /\ failedAt' = stage
    /\ pc' = ThrowTarget(stage)

\* Mutant of LogFailureRethrown: the catch block only logs the error.
LogFailureSwallowed(o) == FALSE

\* database.ts:340-346: the catch block of logCronExecution logs the error
\* and throws it again.
LogFailureRethrown(o) == o # "ok"

\* await logCronExecution(...) (handler.ts:220, database.ts:313-355)
LogCronExecution ==
    /\ pc = "audit"
    /\ \E o \in QueryOutcomes :
        /\ UseConnection(o # "connectFailed", o # "ok")
        /\ auditLog' = IF o = "ok" THEN auditLog + 1 ELSE auditLog
        /\ IF LogFailureRethrown(o)
           THEN Throw("audit", "AuditLogFailure")
           ELSE pc' = "window" /\ UNCHANGED <<error, failedAt>>
    /\ UNCHANGED <<runs, environment, startInput, endInput, startDate, endDate,
                   keyEnforced, validTeamsCsv, validPlayers, transactions,
                   records, table, work, chunkStart, totalInserted,
                   totalUpdated, batchesApplied, notifications, result,
                   tableBefore, upsertCalled, processCalled, fetchCount,
                   mergeFailed, replay, last,
                   batches, fetchTrace,
                   lockRows, upserts, commitOrder,
                   fetchInput, fetchOutcome,
                   event, processEnv, now,
                   PipelineVars>>

\* handler.ts:223-243: resolve the window and validate it.
ResolveWindow ==
    /\ pc = "window"
    /\ LET sd == OrDefault(startInput, getYesterday)
           ed == OrDefault(endInput, getTomorrow)
           e  == validateDateParameters(sd, ed)
       IN  /\ startDate' = sd
           /\ endDate' = ed
           /\ IF e = "none"
              THEN pc' = "teams" /\ UNCHANGED <<error, failedAt>>
              ELSE Throw("window", e)
    /\ UNCHANGED <<runs, environment, startInput, endInput, keyEnforced,
                   auditLog, validTeamsCsv, validPlayers, transactions,
                   records, table, work, chunkStart, totalInserted,
                   totalUpdated, batchesApplied, notifications, result,
                   tableBefore, upsertCalled, processCalled, fetchCount,
                   mergeFailed, replay, last,
                   batches, fetchTrace, connOpened, connOpen,
                   lockRows, upserts, commitOrder,
                   fetchInput, fetchOutcome,
                   event, processEnv, now,
                   PipelineVars>>

\* await fetchValidMLBTeamsCSV() and the empty check (handler.ts:247-251)
FetchTeams ==
    /\ pc = "teams"
    /\ \/ \E o \in {"connectFailed", "queryFailed"} :
            /\ UseConnection(o # "connectFailed", TRUE)
            /\ Throw("catalog", "TeamsQueryFailed")
            /\ UNCHANGED validTeamsCsv
       \/ \E ids \in TeamLists :
            /\ UseConnection(TRUE, FALSE)
            /\ replay => JoinCsv(ids) = last.teams
            /\ validTeamsCsv' = JoinCsv(ids)
            /\ IF NoValidTeams(JoinCsv(ids))
               THEN Throw("catalog", "NoValidTeams")
               ELSE pc' = "players" /\ UNCHANGED <<error, failedAt>>
    /\ UNCHANGED <<runs, environment, startInput, endInput, startDate, endDate,
                   keyEnforced, auditLog, validPlayers, transactions, records,
                   table, work, chunkStart, totalInserted, totalUpdated,
                   batchesApplied, notifications, result, tableBefore,
                   upsertCalled, processCalled, fetchCount, mergeFailed,
                   replay, last,
                   batches, fetchTrace,
                   lockRows, upserts, commitOrder,
                   fetchInput, fetchOutcome,
                   event, processEnv, now,
                   PipelineVars>>

\* await fetchValidMLBPlayers() and the empty check (handler.ts:257-261)
FetchPlayers ==
    /\ pc = "players"
    /\ \/ \E o \in {"connectFailed", "queryFailed"} :
            /\ UseConnection(o # "connectFailed", TRUE)
            /\ Throw("catalog", "PlayersQueryFailed")
            /\ UNCHANGED validPlayers
       \/ \E ps \in PlayerSets :
            /\ UseConnection(TRUE, FALSE)
            /\ replay => ps = last.players
            /\ validPlayers' = ps
            /\ IF NoValidPlayers(ps)
               THEN Throw("catalog", "NoValidPlayers")
               ELSE pc' = "fetch" /\ UNCHANGED <<error, failedAt>>
    /\ UNCHANGED <<runs, environment, startInput, endInput, startDate, endDate,
                   keyEnforced, auditLog, validTeamsCsv, transactions, records,
                   table, work, chunkStart, totalInserted, totalUpdated,
                   batchesApplied, notifications, result, tableBefore,
                   upsertCalled, processCalled, fetchCount, mergeFailed,
                   replay, last,
                   batches, fetchTrace,
                   lockRows, upserts, commitOrder,
                   fetchInput, fetchOutcome,
                   event, processEnv, now,
                   PipelineVars>>

\* await fetchMLBTransactions(...) (handler.ts:267, 78-113), then, without
\* another await, the early exit (269-302) or processTransactions (306).
FetchTransactions ==
    /\ pc = "fetch"
    /\ fetchCount' = fetchCount + 1
    /\ \E out \in FetchTraces :
        /\ fetchTrace' = out
        /\ IF out.error # "none"
           THEN /\ Throw("fetch", out.error)
                /\ UNCHANGED <<transactions, records, processCalled>>
           ELSE \E txs \in HandlerTxLists :
                /\ out.body = "nolist" => txs = <<>>
                /\ replay => (out.body = "json" /\ txs = last.transactions)
                /\ transactions' = txs
                /\ IF out.body = "nolist" \/ EarlyExit(txs)
                   THEN /\ pc' = "notifyOk"
                        /\ UNCHANGED <<records, processCalled, error,
                                       failedAt>>
                   ELSE /\ processCalled' = TRUE
                        /\ IF ProcessThrows(txs)
                           THEN /\ Throw("filter", "TypeError")
                                /\ UNCHANGED records
                           ELSE /\ records' = processTransactions(
                                        txs, validPlayers, validTeamsCsv)
                                /\ pc' = IF CallsUpsert(records') THEN "connect"
                                         ELSE "notifyOk"
                                /\ UNCHANGED <<error, failedAt>>
    /\ UNCHANGED <<runs, environment, startInput, endInput, startDate, endDate,
                   keyEnforced, auditLog, validTeamsCsv, validPlayers, table,
                   work, chunkStart, totalInserted, totalUpdated,
                   batchesApplied, notifications, result, tableBefore,
                   upsertCalled, mergeFailed, replay, last, batches,
                   connOpened, connOpen,
                   lockRows, upserts, commitOrder,
                   fetchInput, fetchOutcome,
                   event, processEnv, now,
                   PipelineVars>>

\* bulkInsertTeamHistory is called (handler.ts:312): the empty check and
\* createDatabaseConnection (database.ts:204-213).
BulkConnect ==
    /\ pc = "connect"
    /\ upsertCalled' = TRUE
    /\ IF Len(records) = 0
       THEN /\ pc' = "notifyOk"
            /\ UNCHANGED <<error, failedAt, connOpened, connOpen>>
       ELSE \E ok \in BOOLEAN :
              IF ok
              THEN /\ pc' = "begin"
                   /\ connOpened' = connOpened + 1
                   /\ connOpen' = connOpen + 1
                   /\ UNCHANGED <<error, failedAt>>
              ELSE /\ Throw("upsert", "ConnectFailed")
                   /\ UNCHANGED <<connOpened, connOpen>>
    /\ UNCHANGED <<runs, environment, startInput, endInput, startDate, endDate,
                   keyEnforced, auditLog, validTeamsCsv, validPlayers,
                   transactions, records, table, work, chunkStart,
                   totalInserted, totalUpdated, batchesApplied, notifications,
                   result, tableBefore, processCalled, fetchCount, mergeFailed,
                   replay, last,
                   batches, fetchTrace,
                   lockRows, upserts, commitOrder,
                   fetchInput, fetchOutcome,
                   event, processEnv, now,
                   PipelineVars>>

\* await transaction.begin() (database.ts:223-224); a failure goes to the
\* outer catch (294-296), which throws without a rollback.
BulkBegin ==
    /\ pc = "begin"
    /\ \E ok \in BOOLEAN :
        IF ok
        THEN /\ work' = table
             /\ chunkStart' = 1
             /\ pc' = "batch"
             /\ UNCHANGED <<error, failedAt, connOpen>>
        ELSE /\ Throw("upsert", "BeginFailed")
             /\ CloseInFinally(TRUE)
             /\ UNCHANGED <<work, chunkStart>>
    /\ UNCHANGED connOpened
    /\ UNCHANGED <<runs, environment, startInput, endInput, startDate, endDate,
                   keyEnforced, auditLog, validTeamsCsv, validPlayers,
                   transactions, records, table, totalInserted, totalUpdated,
                   batchesApplied, notifications, result, tableBefore,
                   upsertCalled, processCalled, fetchCount, mergeFailed,
                   replay, last,
                   batches, fetchTrace,
                   lockRows, upserts, commitOrder,
                   fetchInput, fetchOutcome,
                   event, processEnv, now,
                   PipelineVars>>

\* The error, if any, with which the MERGE of a chunk fails by itself.
MergeError(tbl, chunk, enforced) ==
    IF MergeAmbiguous(tbl, chunk) THEN "MergeAmbiguous"
    ELSE IF enforced /\ HasDuplicateKey(MergeTable(tbl, chunk)) THEN "KeyViolation"
    ELSE "none"

\* One iteration of the batch loop whose MERGE succeeds (database.ts:227-276).
MergeBatch ==
    /\ pc = "batch"
    /\ LET chunk == Chunk(records, chunkStart)
       IN  /\ MergeError(work, chunk, keyEnforced) = "none"
           /\ work' = MergeTable(work, chunk)
           /\ totalInserted' = totalInserted + ChunkInserted(work, chunk)
           /\ totalUpdated' = totalUpdated + ChunkUpdated(work, chunk)
    /\ batches' = Append(batches, Chunk(records, chunkStart))
    /\ batchesApplied' = batchesApplied + 1
    /\ chunkStart' = chunkStart + CHUNK_SIZE
    /\ pc' = IF chunkStart' > Len(records) THEN "commit" ELSE "batch"
    /\ UNCHANGED <<runs, environment, startInput, endInput, startDate, endDate,
                   keyEnforced, auditLog, validTeamsCsv, validPlayers,
                   transactions, records, table, error, failedAt,
                   notifications, result, tableBefore, upsertCalled,
                   processCalled, fetchCount, mergeFailed, replay, last, fetchTrace,
                   connOpened, connOpen,
                   lockRows, upserts, commitOrder,
                   fetchInput, fetchOutcome,
                   event, processEnv, now,
                   PipelineVars>>

\* One iteration whose request.query throws (database.ts:258): the MERGE
\* fails by itself, or the server or the connection fails. Control goes to
\* the inner catch (289).
MergeBatchFails ==
    /\ pc = "batch"
    /\ LET e == MergeError(work, Chunk(records, chunkStart), keyEnforced)
       IN  error' = IF e = "none" THEN "MergeFailed" ELSE e
    /\ batches' = Append(batches, Chunk(records, chunkStart))
    /\ failedAt' = "upsert"
    /\ mergeFailed' = TRUE
    /\ pc' = "rollback"
    /\ UNCHANGED <<runs, environment, startInput, endInput, startDate, endDate,
                   keyEnforced, auditLog, validTeamsCsv, validPlayers,
                   transactions, records, table, work, chunkStart,
                   totalInserted, totalUpdated, batchesApplied, notifications,
                   result, tableBefore, upsertCalled, processCalled,
                   fetchCount, replay, last, fetchTrace,
                   connOpened, connOpen,
                   lockRows, upserts, commitOrder,
                   fetchInput, fetchOutcome,
                   event, processEnv, now,
                   PipelineVars>>

\* await transaction.commit() (database.ts:278). When the commit throws, the
\* server may or may not have committed; control goes to the inner catch.
BulkCommit ==
    /\ pc = "commit"
    /\ \/ /\ table' = Committed(table, work)
          /\ pc' = "notifyOk"
          /\ CloseInFinally(FALSE)
          /\ UNCHANGED <<error, failedAt>>
       \/ /\ table' \in {table, Committed(table, work)}
          /\ error' = "CommitFailed"
          /\ failedAt' = "upsert"
          /\ pc' = "rollback"
          /\ UNCHANGED connOpen
    /\ UNCHANGED connOpened
    /\ UNCHANGED <<runs, environment, startInput, endInput, startDate, endDate,
                   keyEnforced, auditLog, validTeamsCsv, validPlayers,
                   transactions, records, work, chunkStart, totalInserted,
                   totalUpdated, batchesApplied, notifications, result,
                   tableBefore, upsertCalled, processCalled, fetchCount,
                   mergeFailed, replay, last,
                   batches, fetchTrace,
                   lockRows, upserts, commitOrder,
                   fetchInput, fetchOutcome,
                   event, processEnv, now,
                   PipelineVars>>

\* The inner catch (database.ts:289-292): await transaction.rollback(), then
\* throw; when the rollback throws, its error is the one that propagates.
\* The finally block closes the connection (297-304).
BulkRollback ==
    /\ pc = "rollback"
    /\ table' = RolledBack(table, work)
    /\ work' = <<>>
    /\ \E ok \in BOOLEAN :
        /\ Throw("upsert", IF ok THEN error ELSE "RollbackFailed")
        /\ CloseInFinally(TRUE)
    /\ UNCHANGED connOpened
    /\ UNCHANGED <<runs, environment, startInput, endInput, startDate, endDate,
                   keyEnforced, auditLog, validTeamsCsv, validPlayers,
                   transactions, records, chunkStart, totalInserted,
                   totalUpdated, batchesApplied, notifications, result,
                   tableBefore, upsertCalled, processCalled, fetchCount,
                   mergeFailed, replay, last,
                   batches, fetchTrace,
                   lockRows, upserts, commitOrder,
                   fetchInput, fetchOutcome,
                   event, processEnv, now,
                   PipelineVars>>

\* database.ts:280, the total of the returned statistics.
TotalProcessed(inserted, updated) == inserted + updated

\* What the returned body carries (handler.ts:288-300, 337-349).
Counts ==
    [transactionsFound |-> Len(transactions), recordsProcessed |-> Len(records),
     recordsInserted |-> totalInserted, recordsUpdated |-> totalUpdated,
     totalDbOperations |-> TotalProcessed(totalInserted, totalUpdated)]

\* Mutant of AdditionalInfo: the counts as they were before the upsert.
AdditionalInfoBeforeUpsert ==
    [transactionsFound |-> Len(transactions), recordsProcessed |-> Len(records),
     recordsInserted |-> 0, recordsUpdated |-> 0]

\* The additionalInfo of the success notification (handler.ts:278-285,
\* 323-332), written in the code apart from the returned body.
AdditionalInfo ==
    [transactionsFound |-> Len(transactions), recordsProcessed |-> Len(records),
     recordsInserted |-> totalInserted, recordsUpdated |-> totalUpdated]

Notification(kind, e, delivered) ==
    [kind |-> kind, error |-> e, delivered |-> delivered,
     counts |-> AdditionalInfo]

\* await sendCronSuccessNotification(...) and the return
\* (handler.ts:273-301, 318-350; notifications.ts:10-50)
NotifySuccess ==
    /\ pc = "notifyOk"
    /\ IF SkipsNotification(environment)
       THEN /\ pc' = "done"
            /\ result' = [status |-> "success", error |-> "none"] @@ Counts
            /\ UNCHANGED <<notifications, error, failedAt>>
       ELSE \E delivered \in BOOLEAN :
              /\ notifications' =
                     Append(notifications, Notification("success", "none", delivered))
              /\ IF SuccessPublishThrows(delivered)
                 THEN Throw("notify", "NotificationFailure") /\ UNCHANGED result
                 ELSE /\ pc' = "done"
                      /\ result' = [status |-> "success", error |-> "none"] @@ Counts
                      /\ UNCHANGED <<error, failedAt>>
    /\ UNCHANGED <<runs, environment, startInput, endInput, startDate, endDate,
                   keyEnforced, auditLog, validTeamsCsv, validPlayers,
                   transactions, records, table, work, chunkStart,
                   totalInserted, totalUpdated, batchesApplied, tableBefore,
                   upsertCalled, processCalled, fetchCount, mergeFailed,
                   replay, last,
                   batches, fetchTrace, connOpened, connOpen,
                   lockRows, upserts, commitOrder,
                   fetchInput, fetchOutcome,
                   event, processEnv, now,
                   PipelineVars>>

\* What the invocation ends with after the catch block.
Failure(e) ==
    IF CatchRethrows
    THEN [NoResult EXCEPT !.status = "failed", !.error = e]
    ELSE [NoResult EXCEPT !.status = "success"]

\* The catch block of the handler (handler.ts:352-365;
\* notifications.ts:55-89)
NotifyError ==
    /\ pc = "catch"
    /\ pc' = "done"
    /\ IF SkipsNotification(environment)
       THEN /\ result' = Failure(error)
            /\ UNCHANGED notifications
       ELSE \E delivered \in BOOLEAN :
              /\ notifications' =
                     Append(notifications, Notification("error", error, delivered))
              /\ result' = IF ErrorPublishThrows(delivered)
                           THEN [NoResult EXCEPT !.status = "failed",
                                                 !.error = "NotificationFailure"]
                           ELSE Failure(error)
    /\ UNCHANGED <<runs, environment, startInput, endInput, startDate, endDate,
                   keyEnforced, auditLog, validTeamsCsv, validPlayers,
                   transactions, records, table, work, chunkStart,
                   totalInserted, totalUpdated, batchesApplied, error, failedAt,
                   tableBefore, upsertCalled, processCalled, fetchCount,
                   mergeFailed, replay, last,
                   batches, fetchTrace, connOpened, connOpen,
                   lockRows, upserts, commitOrder,
                   fetchInput, fetchOutcome,
                   event, processEnv, now,
                   PipelineVars>>

Next ==
    \/ Invoke
    \/ LogCronExecution
    \/ ResolveWindow
    \/ FetchTeams
    \/ FetchPlayers
    \/ FetchTransactions
    \/ BulkConnect
    \/ BulkBegin
    \/ MergeBatch
    \/ MergeBatchFails
    \/ BulkCommit
    \/ BulkRollback
    \/ NotifySuccess
    \/ NotifyError
    \/ Return

Spec == Init /\ [][Next]_vars

\* ------------------------------------------------------------- SpecProcess
\* processTransactions alone, on every list of ProcTxLists.
InitProcess ==
    /\ pc = "proc_input"
    /\ runs = 0
    /\ environment = "lambda"
    /\ startInput = Absent
    /\ endInput = Absent
    /\ keyEnforced = FALSE
    /\ auditLog = 0
    /\ table = <<>>
    /\ tableBefore = <<>>
    /\ replay = FALSE
    /\ last = NoLast
    /\ startDate = Absent
    /\ endDate = Absent
    /\ validTeamsCsv \in {JoinCsv(ids) : ids \in ProcTeamLists}
    /\ validPlayers = {7}
    /\ transactions \in ProcTxLists
    /\ records = <<>>
    /\ work = <<>>
    /\ chunkStart = 1
    /\ totalInserted = 0
    /\ totalUpdated = 0
    /\ batchesApplied = 0
    /\ error = "none"
    /\ failedAt = "none"
    /\ notifications = <<>>
    /\ result = NoResult
    /\ upsertCalled = FALSE
    /\ processCalled = FALSE
    /\ fetchCount = 0
    /\ mergeFailed = FALSE
    /\ batches = <<>>
    /\ fetchTrace = NoFetch
    /\ connOpened = 0
    /\ connOpen = 0
    /\ lockRows = <<>>
    /\ upserts = <<>>
    /\ commitOrder = <<>>
    /\ fetchInput = NoFetchInput
    /\ fetchOutcome = NoFetchOutcome
    /\ event = NoEvent
    /\ processEnv = NoProcessEnv
    /\ now = Today
    /\ accepted = <<>>
    /\ queue = <<>>
    /\ dedupSeen = {}
    /\ consumers = <<>>
    /\ handled = <<>>
    /\ webhookResponse = NoResponse
    /\ messageText = <<>>
    /\ replies = <<>>
    /\ registration = NoRegistration

\* processTransactions(transactions, validPlayers, validTeamsCsv)
ApplyProcess ==
    /\ pc = "proc_input"
    /\ processCalled' = TRUE
    /\ IF ProcessThrows(transactions)
       THEN /\ pc' = "proc_threw"
            /\ error' = "TypeError"
            /\ UNCHANGED records
       ELSE /\ pc' = "proc_done"
            /\ records' = processTransactions(transactions, validPlayers,
                                              validTeamsCsv)
            /\ UNCHANGED error
    /\ UNCHANGED <<runs, environment, startInput, endInput, startDate, endDate,
                   keyEnforced, auditLog, validTeamsCsv, validPlayers,
                   transactions, table, work, chunkStart, totalInserted,
                   totalUpdated, batchesApplied, failedAt, notifications,
                   result, tableBefore, upsertCalled, fetchCount, mergeFailed,
                   replay, last,
                   batches, fetchTrace, connOpened, connOpen,
                   lockRows, upserts, commitOrder,
                   fetchInput, fetchOutcome,
                   event, processEnv, now,
                   PipelineVars>>

NextProcess == ApplyProcess

SpecProcess == InitProcess /\ [][NextProcess]_vars

\* --------------------------------------------------------------- SpecChunk
\* The batch loop of bulkInsertTeamHistory alone, with the deployed chunk
\* size, on record lists of every length up to MaxChunkRecords.
ChunkRecord(i) ==
    [MLBPlayer |-> i, Date |-> DateParse(D1), MLBTeam |-> 141,
     Description |-> ShortDesc]

InitChunk ==
    /\ pc = "chunk_input"
    /\ runs = 0
    /\ environment = "lambda"
    /\ startInput = Absent
    /\ endInput = Absent
    /\ keyEnforced = FALSE
    /\ auditLog = 0
    /\ table = <<>>
    /\ tableBefore = <<>>
    /\ replay = FALSE
    /\ last = NoLast
    /\ startDate = Absent
    /\ endDate = Absent
    /\ validTeamsCsv = <<>>
    /\ validPlayers = {}
    /\ transactions = <<>>
    /\ \E n \in 0..MaxChunkRecords : records = [i \in 1..n |-> ChunkRecord(i)]
    /\ work = <<>>
    /\ chunkStart = 1
    /\ totalInserted = 0
    /\ totalUpdated = 0
    /\ batchesApplied = 0
    /\ error = "none"
    /\ failedAt = "none"
    /\ notifications = <<>>
    /\ result = NoResult
    /\ upsertCalled = FALSE
    /\ processCalled = FALSE
    /\ fetchCount = 0
    /\ mergeFailed = FALSE
    /\ batches = <<>>
    /\ fetchTrace = NoFetch
    /\ connOpened = 0
    /\ connOpen = 0
    /\ lockRows = <<>>
    /\ upserts = <<>>
    /\ commitOrder = <<>>
    /\ fetchInput = NoFetchInput
    /\ fetchOutcome = NoFetchOutcome
    /\ event = NoEvent
    /\ processEnv = NoProcessEnv
    /\ now = Today
    /\ accepted = <<>>
    /\ queue = <<>>
    /\ dedupSeen = {}
    /\ consumers = <<>>
    /\ handled = <<>>
    /\ webhookResponse = NoResponse
    /\ messageText = <<>>
    /\ replies = <<>>
    /\ registration = NoRegistration

\* if (!records.length) return (database.ts:205-208): no batch at all.
ChunkNone ==
    /\ pc = "chunk_input"
    /\ Len(records) = 0
    /\ pc' = "chunk_done"
    /\ UNCHANGED <<runs, environment, startInput, endInput, startDate, endDate,
                   keyEnforced, auditLog, validTeamsCsv, validPlayers,
                   transactions, records, table, work, chunkStart,
                   totalInserted, totalUpdated, batchesApplied, error,
                   failedAt, notifications, result, tableBefore, upsertCalled,
                   processCalled, fetchCount, mergeFailed, replay, last,
                   batches, fetchTrace, connOpened, connOpen,
                   lockRows, upserts, commitOrder,
                   fetchInput, fetchOutcome,
                   event, processEnv, now,
                   PipelineVars>>

\* One iteration of for (i = 0; i < records.length; i += CHUNK_SIZE): the
\* slice and its parameters (database.ts:227-243).
ChunkLoop ==
    /\ pc \in {"chunk_input", "chunk_loop"}
    /\ chunkStart <= Len(records)
    /\ batches' = Append(batches, Slice(records, chunkStart, DEPLOYED_CHUNK_SIZE))
    /\ chunkStart' = chunkStart + DEPLOYED_CHUNK_SIZE
    /\ pc' = IF chunkStart' > Len(records) THEN "chunk_done" ELSE "chunk_loop"
    /\ UNCHANGED <<runs, environment, startInput, endInput, startDate, endDate,
                   keyEnforced, auditLog, validTeamsCsv, validPlayers,
                   transactions, records, table, work, totalInserted,
                   totalUpdated, batchesApplied, error, failedAt,
                   notifications, result, tableBefore, upsertCalled,
                   processCalled, fetchCount, mergeFailed, replay, last, fetchTrace,
                   connOpened, connOpen,
                   lockRows, upserts, commitOrder,
                   fetchInput, fetchOutcome,
                   event, processEnv, now,
                   PipelineVars>>

NextChunk == ChunkNone \/ ChunkLoop

SpecChunk == InitChunk /\ [][NextChunk]_vars

\* ---------------------------------------------------------------- SpecQueue
\* The updates Telegram can deliver next. Ids are counted per chat, so the
\* first messages of two users carry the same message_id; an update whose
\* request was answered with an error is sent again with the ids it had.
NextUpdates ==
    {Update(webhookResponse.n + 1, k, f,
            1 + Cardinality({a \in 1..Len(accepted) :
                                /\ accepted[a].update.from = f
                                /\ accepted[a].update.kind = k})) :
        k \in UpdateKinds, f \in Users}

InitQueue ==
    /\ pc = "pipeline"
    /\ runs = 0
    /\ environment = "lambda"
    /\ startInput = Absent
    /\ endInput = Absent
    /\ keyEnforced = TRUE
    /\ auditLog = 0
    /\ table = <<>>
    /\ tableBefore = <<>>
    /\ replay = FALSE
    /\ last = NoLast
    /\ RunLocalsInit
    /\ lockRows = <<>>
    /\ upserts = <<>>
    /\ commitOrder = <<>>
    /\ fetchInput = NoFetchInput
    /\ fetchOutcome = NoFetchOutcome
    /\ event = NoEvent
    /\ processEnv = NoProcessEnv
    /\ now = Today
    /\ accepted = <<>>
    /\ queue = <<>>
    /\ dedupSeen = {}
    /\ consumers = [c \in Consumers |-> IdleConsumer]
    /\ handled = <<>>
    /\ webhookResponse = NoResponse
    /\ messageText = <<>>
    /\ replies = <<>>
    /\ registration = NoRegistration

\* The bodies the next request to the webhook may carry.
WebhookBodies ==
    {WebhookBody(k, NoUpdate) : k \in {"absent", "garbage", "null"}}
        \cup {WebhookBody("update", u) : u \in NextUpdates}

\* What `await sqs.send(...)` can end in: the queue took the message and the
\* call returned; the call threw and the queue took nothing; the queue took
\* the message and the call threw all the same (the answer was lost).
SendOutcomes == {"ok", "rejected", "lost"}

\* One invocation of the webhook handler (webhook.ts:14-76).
WebhookHandler ==
    /\ pc = "pipeline"
    /\ webhookResponse.n < MaxUpdates
    /\ \E body \in WebhookBodies, out \in SendOutcomes :
        LET n   == webhookResponse.n + 1
            kind == body.kind
            u   == body.update
            msg == SqsMessage(u)
            new == msg.dedupId \notin dedupSeen
        IN  IF kind = "absent"
            THEN \* !event.body (webhook.ts:23-29)
                 /\ out = "ok"
                 /\ webhookResponse' = Response(n, kind, 400, 0)
                 /\ UNCHANGED <<accepted, queue, dedupSeen>>
            ELSE IF kind \in {"garbage", "null"}
            THEN \* JSON.parse throws, or update.message of null throws
                 \* (webhook.ts:32-37), caught at 62
                 /\ out = "ok"
                 /\ webhookResponse' = Response(n, kind, 500, 0)
                 /\ UNCHANGED <<accepted, queue, dedupSeen>>
            ELSE /\ kind = "update"
                 /\ queue' = IF out # "rejected" /\ new
                             THEN Append(queue, msg) ELSE queue
                 /\ dedupSeen' = IF out # "rejected"
                                 THEN dedupSeen \cup {msg.dedupId}
                                 ELSE dedupSeen
                 /\ accepted' = IF out = "ok"
                                THEN Append(accepted,
                                            [update |-> u, queued |-> new])
                                ELSE accepted
                 /\ webhookResponse' =
                       Response(n, kind, StatusAfterSend(out),
                                IF out = "ok" THEN 1 ELSE 0)
    /\ UNCHANGED <<pc, consumers, handled>>
    /\ UNCHANGED <<HandlerRest, lockRows, upserts, commitOrder, fetchInput,
                   fetchOutcome, event, processEnv, now, RegisterVars>>

\* The update_ids of the messages in the queue, in the order of the queue.
QueueIds == [i \in 1..Len(queue) |-> queue[i].update.update_id]

\* A message group is locked while one of its messages is in flight.
GroupLocked(g) ==
    \E i \in 1..Len(queue) : queue[i].group = g /\ queue[i].owner # 0

\* The sets of messages the FIFO queue may hand out as one batch: messages of
\* groups that are not locked, and of each group its oldest messages.
Batches ==
    {S \in SUBSET (1..Len(queue)) :
        /\ S # {}
        /\ Cardinality(S) <= MaxBatch
        /\ \A i \in S :
              /\ ~GroupLocked(queue[i].group)
              /\ \A j \in 1..(i - 1) :
                    queue[j].group = queue[i].group => j \in S}

\* The queue hands a batch to an invocation of the message consumer
\* (sst.config.ts:141-158, messageQueue.subscribe).
ReceiveBatch(c) ==
    /\ pc = "pipeline"
    /\ consumers[c].batch = <<>>
    /\ \A d \in Consumers : d < c => consumers[d].batch # <<>>
    /\ \E S \in Batches :
        /\ queue' = [i \in 1..Len(queue) |->
                        IF i \in S THEN [queue[i] EXCEPT !.owner = c]
                        ELSE queue[i]]
        /\ consumers' =
              [consumers EXCEPT
                 ![c] = [batch |-> SelectSeq(QueueIds,
                                     LAMBDA id : \E i \in S : QueueIds[i] = id),
                         pos |-> 0]]
    /\ UNCHANGED <<pc, accepted, dedupSeen, handled, webhookResponse>>
    /\ UNCHANGED <<HandlerRest, lockRows, upserts, commitOrder, fetchInput,
                   fetchOutcome, event, processEnv, now, RegisterVars>>

\* The update of a message of the queue.
UpdateOf(id) ==
    LET i == CHOOSE k \in 1..Len(queue) : queue[k].update.update_id = id
    IN  queue[i].update

\* The update an invocation with a batch is handling.
Current(c) == UpdateOf(consumers[c].batch[consumers[c].pos + 1])

\* Failed handlings so far.
Redeliveries == Cardinality({i \in 1..Len(handled) : ~handled[i].ok})

\* messageConsumer.ts:133-148: the next record of the batch is parsed and
\* bot.handleUpdate returns; after the last record the handler returns and
\* the batch is deleted from the queue.
HandleReturns(c) ==
    /\ pc = "pipeline"
    /\ consumers[c].batch # <<>>
    /\ handled' = Append(handled, [update |-> Current(c), ok |-> TRUE])
    /\ IF consumers[c].pos + 1 < Len(consumers[c].batch)
       THEN /\ consumers' = [consumers EXCEPT ![c].pos = @ + 1]
            /\ UNCHANGED queue
       ELSE /\ consumers' = [consumers EXCEPT ![c] = IdleConsumer]
            /\ queue' = SelectSeq(queue, LAMBDA m : m.owner # c)
    /\ UNCHANGED <<pc, accepted, dedupSeen, webhookResponse>>
    /\ UNCHANGED <<HandlerRest, lockRows, upserts, commitOrder, fetchInput,
                   fetchOutcome, event, processEnv, now, RegisterVars>>

\* Mutant of AfterThrow: the error of a record is caught inside the loop and
\* the invocation goes on with the next record.
ContinuesAfterThrow(con) ==
    IF con.pos + 1 < Len(con.batch) THEN [con EXCEPT !.pos = @ + 1]
    ELSE IdleConsumer

\* messageConsumer.ts:129 and 149-156: the try block encloses the whole
\* loop, so an error of one record ends the invocation.
AfterThrow(con) == IdleConsumer

\* messageConsumer.ts:149-156: bot.handleUpdate throws, the handler throws,
\* and every message of the batch becomes visible again.
HandleThrows(c) ==
    /\ pc = "pipeline"
    /\ consumers[c].batch # <<>>
    /\ Redeliveries < MaxRedeliveries
    /\ handled' = Append(handled, [update |-> Current(c), ok |-> FALSE])
    /\ consumers' = [consumers EXCEPT ![c] = AfterThrow(consumers[c])]
    /\ queue' = [i \in 1..Len(queue) |->
                    IF queue[i].owner = c THEN [queue[i] EXCEPT !.owner = 0]
                    ELSE queue[i]]
    /\ UNCHANGED <<pc, accepted, dedupSeen, webhookResponse>>
    /\ UNCHANGED <<HandlerRest, lockRows, upserts, commitOrder, fetchInput,
                   fetchOutcome, event, processEnv, now, RegisterVars>>

NextQueue ==
    \/ WebhookHandler
    \/ \E c \in Consumers :
          ReceiveBatch(c) \/ HandleReturns(c) \/ HandleThrows(c)

SpecQueue == InitQueue /\ [][NextQueue]_vars

\* ------------------------------------------------------------- SpecRegister
\* The /register command of the bot and registerUser. A text is a sequence
\* of runs of one character: "x" for any character but the space.
Run(ch, n) == [ch |-> ch, n |-> n]

\* The lengths of the words of a command text, around the limits 16 and 32.
WordLengths == {1, 16, 17, 32, 33}
\* The number of spaces between two words.
GapLengths == {1, 2}

\* "/register" followed by words w at distances g and by t spaces.
CommandText(w, g, t) ==
    LET body[i \in 0..Len(w)] ==
            IF i = 0 THEN <<Run("x", 9)>>
            ELSE body[i - 1] \o <<Run(" ", g[i]), Run("x", w[i])>>
    IN  body[Len(w)] \o (IF t = 0 THEN <<>> ELSE <<Run(" ", t)>>)

CommandTexts ==
    {CommandText(w, g, t) :
        <<w, g>> \in UNION {[1..k -> WordLengths] \X [1..k -> GapLengths] :
                               k \in 0..MaxWords},
        t \in 0..1}

\* messageText.split(" "), as the lengths of the parts: every space ends a
\* part, so two spaces in a row enclose an empty part.
RECURSIVE SplitFrom(_, _, _)
SplitFrom(text, i, cur) ==
    IF i > Len(text) THEN <<cur>>
    ELSE IF text[i].ch = " "
    THEN <<cur>> \o [j \in 1..(text[i].n - 1) |-> 0] \o SplitFrom(text, i + 1, 0)
    ELSE SplitFrom(text, i + 1, cur + text[i].n)

split(text) == SplitFrom(text, 1, 0)

\* The texts of the replies (messageConsumer.ts:59, database.ts:63, 71).
FormatHint == <<"Please use format: /register [username] [token]">>
UsernameTooLong == <<"username is too long (max 16 chars)">>
TokenWrongLength == <<"token is not the expected length (32 chars)">>

\* Mutant of validateRegistrationInput: the token is checked first.
validateTokenFirst(username, token) ==
    IF token # 32 THEN [isValid |-> FALSE, message |-> TokenWrongLength]
    ELSE IF username > 16 THEN [isValid |-> FALSE, message |-> UsernameTooLong]
    ELSE [isValid |-> TRUE, message |-> <<>>]

\* database.ts:58-76, on the lengths of the two strings.
validateRegistrationInput(username, token) ==
    IF username > 16 THEN [isValid |-> FALSE, message |-> UsernameTooLong]
    ELSE IF token # 32 THEN [isValid |-> FALSE, message |-> TokenWrongLength]
    ELSE [isValid |-> TRUE, message |-> <<>>]

\* The characters of an error message: a letter, a space, a colon.
ErrorChars == {"a", " ", ":"}
ErrorMessages == UNION {[1..k -> ErrorChars] : k \in 0..MaxErrLen}

\* Mutant of PoolClosed: the pool is closed on the success path only.
PoolClosedOnSuccess(connected, failed) == connected /\ ~failed

\* database.ts:129-138, the finally block: a pool that was connected is
\* handed to close(), whose own failure is swallowed.
PoolClosed(connected, failed) == connected

\* database.ts:115-127, the message of a failed registration.
FailureMessage(errorMessage) == <<"Registration failed, error: ">> \o errorMessage

\* database.ts:110-113
SuccessMessage == <<"Registration successful! Welcome ", "username">>

InitRegister ==
    /\ pc = "register_command"
    /\ runs = 0
    /\ environment = "lambda"
    /\ startInput = Absent
    /\ endInput = Absent
    /\ keyEnforced = TRUE
    /\ auditLog = 0
    /\ table = <<>>
    /\ tableBefore = <<>>
    /\ replay = FALSE
    /\ last = NoLast
    /\ RunLocalsInit
    /\ lockRows = <<>>
    /\ upserts = <<>>
    /\ commitOrder = <<>>
    /\ fetchInput = NoFetchInput
    /\ fetchOutcome = NoFetchOutcome
    /\ event = NoEvent
    /\ processEnv = NoProcessEnv
    /\ now = Today
    /\ accepted = <<>>
    /\ queue = <<>>
    /\ dedupSeen = {}
    /\ consumers = <<>>
    /\ handled = <<>>
    /\ webhookResponse = NoResponse
    /\ messageText \in CommandTexts
    /\ replies = <<>>
    /\ registration = NoRegistration

\* The rest of the model, which the command leaves alone.
RegisterRest ==
    <<HandlerRest, lockRows, upserts, commitOrder, fetchInput, fetchOutcome,
      event, processEnv, now, accepted, queue, dedupSeen, consumers, handled,
      webhookResponse, messageText>>

\* messageConsumer.ts:39-79: the command is split and validated; it ends in
\* a reply, or in the call of registerUser.
RegisterCommand ==
    /\ pc = "register_command"
    /\ LET parts == split(messageText)
       IN  IF Len(parts) # 3
           THEN /\ replies' = Append(replies, FormatHint)
                /\ pc' = "register_done"
                /\ UNCHANGED registration
           ELSE LET validation == validateRegistrationInput(parts[2], parts[3])
                IN  IF ~validation.isValid
                    THEN /\ replies' = Append(replies, validation.message)
                         /\ pc' = "register_done"
                         /\ UNCHANGED registration
                    ELSE /\ registration' = [registration EXCEPT !.calls = @ + 1]
                         /\ pc' = "register_user"
                         /\ UNCHANGED replies
    /\ UNCHANGED RegisterRest

\* database.ts:79-139 and messageConsumer.ts:79-83: registerUser connects,
\* executes the procedure, closes the pool and returns; the command replies
\* with the message of the result.
RegisterUser ==
    /\ pc = "register_user"
    /\ \E connect \in {"ok", "failed"}, execute \in {"ok", "failed"},
          err \in ErrorMessages :
        LET connected == connect = "ok"
            failed    == ~connected \/ execute = "failed"
            message   == IF failed THEN FailureMessage(err) ELSE SuccessMessage
        IN  /\ ~connected => execute = "ok"
            /\ ~failed => err = <<>>
            /\ registration' =
                  [registration EXCEPT
                     !.opened  = IF connected THEN 1 ELSE 0,
                     !.closed  = IF PoolClosed(connected, failed) THEN 1 ELSE 0,
                     !.threw   = FALSE,
                     !.success = ~failed,
                     !.failed  = IF ~connected THEN "connect"
                                 ELSE IF failed THEN "execute" ELSE "none",
                     !.error   = err,
                     !.message = message]
            /\ replies' = Append(replies, message)
    /\ pc' = "register_done"
    /\ UNCHANGED RegisterRest

NextRegister == RegisterCommand \/ RegisterUser

SpecRegister == InitRegister /\ [][NextRegister]_vars

\* --------------------------------------------------------------- SpecWindow
\* The texts a bound can be given as.
WindowTexts == {Absent, D1, DateStr(TRUE, 4, 3), BadDate}
\* The days on which the handler runs: 2 January, the last of January, the
\* leap day, 2 April, 30 December.
RunDays == {2, 31, 60, 93, 365}

\* The handler is invoked with a payload, in an environment, on a day.
InitWindow ==
    /\ pc = "window_input"
    /\ runs = 0
    /\ environment \in {"local", "lambda"}
    /\ startInput = Absent
    /\ endInput = Absent
    /\ keyEnforced = TRUE
    /\ auditLog = 0
    /\ table = <<>>
    /\ tableBefore = <<>>
    /\ replay = FALSE
    /\ last = NoLast
    /\ RunLocalsInit
    /\ lockRows = <<>>
    /\ upserts = <<>>
    /\ commitOrder = <<>>
    /\ fetchInput = NoFetchInput
    /\ fetchOutcome = NoFetchOutcome
    /\ event \in {Event(sd, ed) : sd \in WindowTexts, ed \in WindowTexts}
    /\ processEnv \in
          {ProcessEnv(sd, ed) : sd \in {Absent, D2}, ed \in {Absent, D2}}
    /\ now \in RunDays
    /\ accepted = <<>>
    /\ queue = <<>>
    /\ dedupSeen = {}
    /\ consumers = <<>>
    /\ handled = <<>>
    /\ webhookResponse = NoResponse
    /\ messageText = <<>>
    /\ replies = <<>>
    /\ registration = NoRegistration

\* handler.ts:223-241: the two bounds are read, defaulted and validated.
ReadWindow ==
    /\ pc = "window_input"
    /\ startInput' = StartSource(environment, event, processEnv)
    /\ endInput' = EndSource(environment, event, processEnv)
    /\ LET sd == OrDefault(startInput', getYesterdayOn(now))
           ed == OrDefault(endInput', getTomorrowOn(now))
           e  == validateDateParameters(sd, ed)
       IN  /\ startDate' = sd
           /\ endDate' = ed
           /\ error' = e
           /\ failedAt' = IF e = "none" THEN "none" ELSE "window"
           /\ pc' = IF e = "none" THEN "window_done" ELSE "window_threw"
    /\ UNCHANGED <<runs, environment, keyEnforced, auditLog, validTeamsCsv,
                   validPlayers, transactions, records, table, work,
                   chunkStart, totalInserted, totalUpdated, batchesApplied,
                   notifications, result, tableBefore, upsertCalled,
                   processCalled, fetchCount, mergeFailed, replay, last,
                   batches, fetchTrace, connOpened, connOpen, lockRows,
                   upserts, commitOrder, fetchInput, fetchOutcome, event,
                   processEnv, now,
                   PipelineVars>>

NextWindow == ReadWindow

SpecWindow == InitWindow /\ [][NextWindow]_vars

\* ---------------------------------------------------------------- SpecFetch
\* fetchMLBTransactions by itself, called once against every answer of the
\* transaction source.
InitFetch ==
    /\ pc = "fetch_input"
    /\ runs = 0
    /\ environment = "local"
    /\ startInput = Absent
    /\ endInput = Absent
    /\ keyEnforced = TRUE
    /\ auditLog = 0
    /\ table = <<>>
    /\ tableBefore = <<>>
    /\ replay = FALSE
    /\ last = NoLast
    /\ RunLocalsInit
    /\ lockRows = <<>>
    /\ upserts = <<>>
    /\ commitOrder = <<>>
    /\ fetchInput \in FetchInputs
    /\ fetchOutcome = NoFetchOutcome
    /\ event = NoEvent
    /\ processEnv = NoProcessEnv
    /\ now = Today
    /\ accepted = <<>>
    /\ queue = <<>>
    /\ dedupSeen = {}
    /\ consumers = <<>>
    /\ handled = <<>>
    /\ webhookResponse = NoResponse
    /\ messageText = <<>>
    /\ replies = <<>>
    /\ registration = NoRegistration

\* The call returns the parsed body (handler.ts:103-104).
FetchReturns ==
    /\ pc = "fetch_input"
    /\ fetchMLBTransactions(fetchInput).error = "none"
    /\ fetchOutcome' = fetchMLBTransactions(fetchInput)
    /\ pc' = "fetch_returned"
    /\ UNCHANGED <<HandlerRest, lockRows, upserts, commitOrder, fetchInput,
                   event, processEnv, now,
                   PipelineVars>>

\* The call throws (handler.ts:100, 103, 106-112).
FetchThrows ==
    /\ pc = "fetch_input"
    /\ fetchMLBTransactions(fetchInput).error # "none"
    /\ fetchOutcome' = fetchMLBTransactions(fetchInput)
    /\ pc' = "fetch_threw"
    /\ UNCHANGED <<HandlerRest, lockRows, upserts, commitOrder, fetchInput,
                   event, processEnv, now,
                   PipelineVars>>

NextFetch == FetchReturns \/ FetchThrows

SpecFetch == InitFetch /\ [][NextFetch]_vars

\* ---------------------------------------------------------- SpecConcurrent
\* bulkInsertTeamHistory of two runs at once on one table, under the READ
\* COMMITTED isolation that new sql.Transaction(pool) begins with: a row a
\* transaction has written is locked until that transaction ends, a MERGE
\* sees committed rows and its own, and, there being no HOLDLOCK hint in the
\* statement (database.ts:246-256), another transaction can insert a key
\* between the match of a MERGE and its insert.
Runs == {1, 2}
Other(r) == 3 - r

\* A row of the table with its lock: owner is the run that wrote it and has
\* not ended (0 when none), before tells what the row was before that run
\* wrote it ("new": not there, "old": oldTeam and oldDescription).
LockRow(rec, owner, before, oldTeam, oldDescription) ==
    [MLBPlayer |-> rec.MLBPlayer, Date |-> rec.Date, MLBTeam |-> rec.MLBTeam,
     Description |-> rec.Description, live |-> TRUE, owner |-> owner,
     before |-> before, oldTeam |-> oldTeam, oldDescription |-> oldDescription]

CommittedRow(rec) == LockRow(rec, 0, "none", 0, <<>>)

\* The record lists bulkInsertTeamHistory is called with: what
\* processTransactions returns for the transactions of the handler model.
ConcTxUniverse ==
    {TxA, TxB, TxD, Tx(50, 7, 141, DateStr(TRUE, 4, 3), ShortDesc),
     Tx(60, 7, 141, DateStr(TRUE, 4, 4), ShortDesc)}
ConcRecordLists ==
    {processTransactions(txs, {7}, JoinCsv(<<141, 147>>)) :
        txs \in UNION {[1..n -> ConcTxUniverse] : n \in 1..MaxConcTx}}

\* The table the two runs find: empty, or with a row of an earlier run.
ConcTables ==
    {<<>>,
     <<CommittedRow([MLBPlayer |-> 7, Date |-> DateParse(D1), MLBTeam |-> 141,
                     Description |-> <<"o">>])>>}

Upsert(recs) ==
    [pc |-> "begin", records |-> recs, chunkStart |-> 1, plan |-> <<>>,
     error |-> "none"]

InitConcurrent ==
    /\ pc = "concurrent"
    /\ runs = 0
    /\ environment = "lambda"
    /\ startInput = Absent
    /\ endInput = Absent
    /\ keyEnforced \in BOOLEAN
    /\ auditLog = 0
    /\ table = <<>>
    /\ tableBefore = <<>>
    /\ replay = FALSE
    /\ last = NoLast
    /\ RunLocalsInit
    /\ lockRows \in ConcTables
    /\ upserts \in {<<Upsert(a), Upsert(b)>> : a, b \in ConcRecordLists}
    /\ commitOrder = <<>>
    /\ fetchInput = NoFetchInput
    /\ fetchOutcome = NoFetchOutcome
    /\ event = NoEvent
    /\ processEnv = NoProcessEnv
    /\ now = Today
    /\ accepted = <<>>
    /\ queue = <<>>
    /\ dedupSeen = {}
    /\ consumers = <<>>
    /\ handled = <<>>
    /\ webhookResponse = NoResponse
    /\ messageText = <<>>
    /\ replies = <<>>
    /\ registration = NoRegistration

\* await transaction.begin() (database.ts:223-224)
ConcBegin(r) ==
    /\ upserts[r].pc = "begin"
    /\ upserts' = [upserts EXCEPT ![r].pc = "plan"]
    /\ UNCHANGED <<HandlerVars, PipelineVars, event, processEnv, now,
                   fetchInput, fetchOutcome, lockRows, commitOrder>>

\* The rows a MERGE of run r can see: committed ones and its own.
VisibleTo(row, r) ==
    row.live /\ (row.owner \in {0, r} \/ row.before = "old")

\* The chunk run r is at.
ConcChunk(r) == Chunk(upserts[r].records, upserts[r].chunkStart)

\* The first half of a MERGE (database.ts:247-249): for each source row the
\* target rows that satisfy the ON condition.
ConcPlan(r) ==
    /\ upserts[r].pc = "plan"
    /\ upserts' =
          [upserts EXCEPT
              ![r].pc = "apply",
              ![r].plan =
                  [j \in 1..Len(ConcChunk(r)) |->
                      {i \in 1..Len(lockRows) :
                          /\ VisibleTo(lockRows[i], r)
                          /\ Matches(lockRows[i], ConcChunk(r)[j])}]]
    /\ UNCHANGED <<HandlerVars, PipelineVars, event, processEnv, now,
                   fetchInput, fetchOutcome, lockRows, commitOrder>>

\* The target rows the planned MERGE of run r updates, and the source rows
\* it inserts.
ConcTargets(r) == UNION {upserts[r].plan[j] : j \in 1..Len(upserts[r].plan)}
ConcSourcesOf(r, i) == {j \in 1..Len(upserts[r].plan) : i \in upserts[r].plan[j]}
ConcInserts(r) == {j \in 1..Len(upserts[r].plan) : upserts[r].plan[j] = {}}

\* A row with the key of source row j that is committed or r's own.
ConcKeyExists(r, j) ==
    \E i \in 1..Len(lockRows) :
        VisibleTo(lockRows[i], r) /\ Matches(lockRows[i], ConcChunk(r)[j])

\* A row with the key of source row j that the other run has inserted and
\* not yet committed.
ConcKeyPending(r, j) ==
    \E i \in 1..Len(lockRows) :
        /\ lockRows[i].live
        /\ lockRows[i].owner = Other(r)
        /\ lockRows[i].before = "new"
        /\ Matches(lockRows[i], ConcChunk(r)[j])

\* The error with which the second half of the MERGE fails by itself.
ConcError(r) ==
    IF \E i \in ConcTargets(r) : Cardinality(ConcSourcesOf(r, i)) > 1
    THEN "MergeAmbiguous"
    ELSE IF /\ keyEnforced
            /\ \/ \E j \in ConcInserts(r) : ConcKeyExists(r, j)
               \/ \E j, k \in ConcInserts(r) :
                     j # k /\ Matches(ConcChunk(r)[j], ConcChunk(r)[k])
    THEN "KeyViolation"
    ELSE "none"

\* The MERGE of run r waits for a lock the other run holds: on a row it
\* updates, or, with a unique key, on the key it inserts.
ConcBlocked(r) ==
    /\ upserts[r].pc = "apply"
    /\ ConcError(r) = "none"
    /\ \/ \E i \in ConcTargets(r) : lockRows[i].owner = Other(r)
       \/ keyEnforced /\ \E j \in ConcInserts(r) : ConcKeyPending(r, j)

\* WHEN MATCHED THEN UPDATE (database.ts:250-251) by run r on a row it
\* has locked or locks now.
ConcUpdate(row, src, r) ==
    [row EXCEPT !.MLBTeam = src.MLBTeam,
                !.Description = src.Description,
                !.owner = r,
                !.before = IF row.owner = r THEN row.before ELSE "old",
                !.oldTeam = IF row.owner = r THEN row.oldTeam ELSE row.MLBTeam,
                !.oldDescription = IF row.owner = r THEN row.oldDescription
                                   ELSE row.Description]

\* WHEN NOT MATCHED THEN INSERT (database.ts:252-254): the rows run r adds.
ConcInserted(r) ==
    LET src == SelectSeq([j \in 1..Len(ConcChunk(r)) |->
                             [rec |-> ConcChunk(r)[j], j |-> j]],
                         LAMBDA x : x.j \in ConcInserts(r))
    IN  [k \in 1..Len(src) |-> LockRow(src[k].rec, r, "new", 0, <<>>)]

\* The second half of a MERGE that succeeds, and the step of the loop
\* (database.ts:250-276).
ConcApply(r) ==
    /\ upserts[r].pc = "apply"
    /\ ConcError(r) = "none"
    /\ ~ConcBlocked(r)
    /\ lockRows' =
          [i \in 1..Len(lockRows) |->
              IF i \in ConcTargets(r)
              THEN ConcUpdate(lockRows[i],
                              ConcChunk(r)[CHOOSE j \in ConcSourcesOf(r, i) : TRUE], r)
              ELSE lockRows[i]]
          \o ConcInserted(r)
    /\ upserts' =
          [upserts EXCEPT
              ![r].plan = <<>>,
              ![r].chunkStart = @ + CHUNK_SIZE,
              ![r].pc = IF upserts[r].chunkStart + CHUNK_SIZE > Len(upserts[r].records)
                        THEN "commit" ELSE "plan"]
    /\ UNCHANGED <<HandlerVars, PipelineVars, event, processEnv, now,
                   fetchInput, fetchOutcome, commitOrder>>

\* transaction.rollback() of run r (database.ts:290): its rows go back to
\* what they were and its locks are released.
ConcRolledBack(rows, r) ==
    [i \in 1..Len(rows) |->
        IF rows[i].owner # r THEN rows[i]
        ELSE IF rows[i].before = "new"
        THEN [rows[i] EXCEPT !.live = FALSE, !.owner = 0, !.before = "none"]
        ELSE [rows[i] EXCEPT !.MLBTeam = rows[i].oldTeam,
                             !.Description = rows[i].oldDescription,
                             !.owner = 0, !.before = "none",
                             !.oldTeam = 0, !.oldDescription = <<>>]]

\* transaction.commit() of run r (database.ts:278): its rows stay and its
\* locks are released.
ConcCommitted(rows, r) ==
    [i \in 1..Len(rows) |->
        IF rows[i].owner # r THEN rows[i]
        ELSE [rows[i] EXCEPT !.owner = 0, !.before = "none",
                             !.oldTeam = 0, !.oldDescription = <<>>]]

\* The MERGE of run r throws (database.ts:258): it fails by itself, or the
\* two runs wait for each other and the server ends one of them. The inner
\* catch rolls back and throws (289-292).
ConcApplyFails(r) ==
    /\ upserts[r].pc = "apply"
    /\ \/ ConcError(r) # "none"
       \/ ConcBlocked(r) /\ ConcBlocked(Other(r))
    /\ lockRows' = ConcRolledBack(lockRows, r)
    /\ upserts' =
          [upserts EXCEPT
              ![r].pc = "failed",
              ![r].plan = <<>>,
              ![r].error = IF ConcError(r) # "none" THEN ConcError(r)
                           ELSE "Deadlock"]
    /\ UNCHANGED <<HandlerVars, PipelineVars, event, processEnv, now,
                   fetchInput, fetchOutcome, commitOrder>>

\* await transaction.commit() (database.ts:278)
ConcCommit(r) ==
    /\ upserts[r].pc = "commit"
    /\ lockRows' = ConcCommitted(lockRows, r)
    /\ upserts' = [upserts EXCEPT ![r].pc = "done"]
    /\ commitOrder' = Append(commitOrder, r)
    /\ UNCHANGED <<HandlerVars, PipelineVars, fetchInput, fetchOutcome, event,
                   processEnv, now>>

NextConcurrent ==
    \E r \in Runs :
        \/ ConcBegin(r)
        \/ ConcPlan(r)
        \/ ConcApply(r)
        \/ ConcApplyFails(r)
        \/ ConcCommit(r)

SpecConcurrent == InitConcurrent /\ [][NextConcurrent]_vars

\* ================================================================== claims

\* ------------------------------------------------------------------- C1
\* C1: the record list that processTransactions produces holds at most one
\* record per (player, date), also when two candidates of one player and
\* date differ in team.
C1_OneRecordPerPlayerDate ==
    pc = "proc_done" =>
        \A i, j \in 1..Len(records) :
            i # j => ~Matches(records[i], records[j])

\* ------------------------------------------------------------------- C2
\* The candidates of the first pass that share the (player, date) of c.
GroupOf(cands, c) == {j \in 1..Len(cands) : Matches(cands[j], c)}

\* C2: within each (player, date) group of candidates exactly one record
\* survives, and it is a candidate of the group with the numerically highest
\* transaction id.
C2_HighestSourceIdSurvives ==
    pc = "proc_done" =>
        LET cands == Candidates(transactions, validPlayers,
                                ParseTeamIds(validTeamsCsv))
        IN  \A k \in 1..Len(cands) :
              LET grp  == GroupOf(cands, cands[k])
                  top  == {j \in grp : \A l \in grp :
                              cands[l].transactionId <= cands[j].transactionId}
                  surv == {i \in 1..Len(records) : Matches(records[i], cands[k])}
              IN  /\ Cardinality(surv) = 1
                  /\ \A i \in surv : \E j \in top : records[i] = StripId(cands[j])

C4_FailedBatchRollsBackAll == mergeFailed => table = tableBefore

\* A run ended after its second batch failed, the first having changed rows
\* inside the transaction.
C4_Witness ==
    /\ pc = "done"
    /\ mergeFailed
    /\ batchesApplied >= 1
    /\ totalInserted + totalUpdated >= 1
    /\ table = tableBefore

ErrorNotified ==
    \E i \in 1..Len(notifications) :
        notifications[i].kind = "error" /\ notifications[i].error = error

\* C6 as amended: after an error of any stage the run ends failed with that
\* same error and never with a success result; outside the local
\* environment exactly one notification is published, a failure notification
\* carrying that error, and in the local environment none is.
C6_ErrorNotifiedAndRethrown ==
    (pc = "done" /\ failedAt # "none") =>
        /\ result.status = "failed"
        /\ result.error = error
        /\ environment # "local" => (ErrorNotified /\ Len(notifications) = 1)
        /\ environment = "local" => notifications = <<>>

\* A hosted run whose upsert failed: notified and re-raised.
C6_Witness ==
    /\ pc = "done"
    /\ failedAt = "upsert"
    /\ environment = "lambda"
    /\ ErrorNotified
    /\ result.status = "failed"
    /\ result.error = error

\* C6 as stated: after an error of any stage a failure notification carrying
\* it is emitted in every run, and the error is re-raised.
C6_Original ==
    (pc = "done" /\ failedAt # "none") =>
        /\ ErrorNotified
        /\ result.status = "failed"
        /\ result.error = error

\* ------------------------------------------------------------------- C7
\* C7: a notification whose publish failed leaves the outcome of the run as
\* it is: a success result with the counts of the run, or the error of the
\* run.
C7_PublishFailureIsolated ==
    pc = "done" =>
        \A i \in 1..Len(notifications) :
            ~notifications[i].delivered =>
                IF notifications[i].kind = "success"
                THEN /\ result.status = "success"
                     /\ result = [status |-> "success", error |-> "none"] @@ Counts
                     /\ notifications[i].counts = AdditionalInfo
                ELSE /\ result.status = "failed"
                     /\ result.error = notifications[i].error
                     /\ result.error = error

\* A run that wrote rows, failed to publish its success notification and
\* still returned success.
C7_Witness ==
    /\ pc = "done"
    /\ Len(notifications) = 1
    /\ notifications[1].kind = "success"
    /\ ~notifications[1].delivered
    /\ result.status = "success"
    /\ result.recordsInserted >= 1

\* ------------------------------------------------------------------- C8
\* The window the handler is given has a wrong format, an unparsable date,
\* or a start after its end.
GivenStart == IF startInput = Absent THEN getYesterday ELSE startInput
GivenEnd == IF endInput = Absent THEN getTomorrow ELSE endInput
BadWindowInput ==
    \/ ~GivenStart.iso
    \/ ~GivenEnd.iso
    \/ DateParse(GivenStart) = NaN
    \/ DateParse(GivenEnd) = NaN
    \/ DateParse(GivenStart) > DateParse(GivenEnd)

\* C8 as amended: a run given such a window issues no request to the
\* transaction source and ends failed, with an invalid-date-range error
\* unless the audit-log write, which comes before the validation, failed,
\* and then with the error of that write.
C8_BadWindowNeverFetches ==
    (pc # "idle" /\ pc # "proc_input" /\ BadWindowInput) =>
        /\ fetchCount = 0
        /\ pc \in {"audit", "window", "catch", "done"}
        /\ pc = "done" =>
              /\ result.status = "failed"
              /\ \/ failedAt = "window" /\ result.error \in InvalidDateRangeErrors
                 \/ failedAt = "audit" /\ result.error = "AuditLogFailure"

\* A run whose start date is after its end date, ended by the validation.
C8_Witness ==
    /\ pc = "done"
    /\ startInput = DateStr(TRUE, 4, 3)
    /\ endInput = D1
    /\ result.status = "failed"
    /\ result.error = "StartAfterEnd"
    /\ fetchCount = 0

\* C8 as stated: every run given such a window fails with an
\* invalid-date-range error and issues no request.
C8_Original ==
    (pc = "done" /\ BadWindowInput) =>
        /\ result.status = "failed"
        /\ result.error \in InvalidDateRangeErrors
        /\ fetchCount = 0

\* ------------------------------------------------------------------- C9
\* C9: in a run that failed in window validation, catalog loading or
\* fetching, bulkInsertTeamHistory is not called and the table stays as the
\* run found it.
C9_EarlyFailureNoPersistence ==
    failedAt \in {"window", "catalog", "fetch"} =>
        /\ ~upsertCalled
        /\ table = tableBefore
        /\ pc \in {"catch", "done"}

\* A run on a table that already has rows, ended by a failed fetch.
C9_Witness ==
    /\ pc = "done"
    /\ failedAt = "fetch"
    /\ Len(tableBefore) >= 1
    /\ ~upsertCalled
    /\ table = tableBefore

\* ------------------------------------------------------------------ C10
\* The fetch of this run returned, with no transaction.
FetchedNothing ==
    /\ pc \in {"notifyOk", "connect", "done"}
    /\ fetchCount = 1
    /\ failedAt = "none"
    /\ Len(transactions) = 0

AllCountsZero(r) ==
    /\ r.transactionsFound = 0
    /\ r.recordsProcessed = 0
    /\ r.recordsInserted = 0
    /\ r.recordsUpdated = 0

\* C10 as amended: when the fetch returns no transaction the run neither
\* filters nor upserts and returns success with all counts zero; outside the
\* local environment one success notification is published, in the local
\* environment none.
C10_EmptyFetchShortCircuits ==
    FetchedNothing =>
        /\ ~processCalled
        /\ ~upsertCalled
        /\ pc # "connect"
        /\ table = tableBefore
        /\ pc = "done" =>
              /\ result.status = "success"
              /\ AllCountsZero(result)
              /\ environment # "local" =>
                    /\ Len(notifications) = 1
                    /\ notifications[1].kind = "success"
                    /\ AllCountsZero(notifications[1].counts)
              /\ environment = "local" => notifications = <<>>

\* A hosted run that fetched nothing and published its success notification.
C10_Witness ==
    /\ FetchedNothing
    /\ pc = "done"
    /\ environment = "lambda"
    /\ Len(notifications) = 1
    /\ notifications[1].kind = "success"
    /\ result.status = "success"
    /\ AllCountsZero(result)

\* C10 as stated: in every run whose fetch returns no transaction a success
\* notification is sent and all counts are zero.
C10_Original ==
    (FetchedNothing /\ pc = "done") =>
        /\ ~processCalled
        /\ ~upsertCalled
        /\ AllCountsZero(result)
        /\ \E i \in 1..Len(notifications) : notifications[i].kind = "success"

\* ------------------------------------------------------------------ C11
RECURSIVE Flatten(_)
Flatten(bs) == IF Len(bs) = 0 THEN <<>> ELSE Head(bs) \o Flatten(Tail(bs))

\* C11: the batch loop cuts n records into exactly ceil(n/500) batches of
\* at most 500 records, none empty; the batches put end to end are the
\* input list (each record in one batch, in order), and no batch binds more
\* than 2000 parameters.
C11_ChunksPartitionRecords ==
    /\ \A b \in 1..Len(batches) :
          /\ Len(batches[b]) \in 1..500
          /\ BoundParameters(batches[b]) <= 2000
    /\ Flatten(batches) = SubSeq(records, 1, Len(Flatten(batches)))
    /\ pc = "chunk_done" =>
          /\ Len(batches) = (Len(records) + 499) \div 500
          /\ Flatten(batches) = records

\* 501 records went out as a batch of 500 and a batch of 1.
C11_Witness ==
    /\ pc = "chunk_done"
    /\ Len(records) = 501
    /\ Len(batches) = 2
    /\ Len(batches[1]) = 500
    /\ Len(batches[2]) = 1
    /\ batches[2][1] = records[501]

\* ------------------------------------------------------------------ C12
\* The first n characters of a text, all of it when it is shorter.
Prefix(text, n) == [i \in 1..Min(Len(text), n) |-> text[i]]

\* C12: every passing transaction is projected with the first
\* min(length, 255) characters of its description, and every record of the
\* result carries such a description of a passing transaction of its key.
C12_DescriptionTruncated ==
    pc = "proc_done" =>
        LET teamIds == ParseTeamIds(validTeamsCsv)
            passing == {k \in 1..Len(transactions) :
                           PassesFilter(transactions[k], validPlayers, teamIds)}
        IN  /\ \A k \in passing :
                  Project(transactions[k]).Description =
                      Prefix(transactions[k].description, 255)
            /\ \A i \in 1..Len(records) : \E k \in passing :
                  /\ records[i].MLBPlayer = transactions[k].personId
                  /\ records[i].MLBTeam = transactions[k].toTeamId
                  /\ records[i].Date = DateParse(transactions[k].date)
                  /\ records[i].Description =
                         Prefix(transactions[k].description, 255)

\* A description of 300 characters came out as its first 255, next to a
\* short one that came out unchanged.
C12_Witness ==
    /\ pc = "proc_done"
    /\ Len(transactions) = 2
    /\ Len(records) = 2
    /\ Len(transactions[1].description) = 300
    /\ Len(records[1].Description) = 255
    /\ \A i \in 1..255 : records[1].Description[i] = transactions[1].description[i]
    /\ records[2].Description = ShortDesc
    /\ transactions[2].description = ShortDesc

\* ------------------------------------------------------------------ C13
\* The candidate test as the claim words it: the ids are present (not null
\* or undefined; 0 is a value), the player and the team are in the
\* catalogs, the date parses.
SpecCandidate(t) ==
    /\ ~t.isNull
    /\ t.personId # NoValue
    /\ t.personId \in validPlayers
    /\ t.toTeamId # NoValue
    /\ t.toTeamId \in ParseTeamIds(validTeamsCsv)
    /\ DateParse(t.date) # NaN
    /\ t.id # NoValue

SameTriple(r, t) ==
    /\ r.MLBPlayer = t.personId
    /\ r.MLBTeam = t.toTeamId
    /\ r.Date = DateParse(t.date)

\* C13: a raw transaction becomes a candidate record exactly when it
\* carries a player id of the catalog, a team id of the catalog, a date that
\* parses and an id (0 included); the result holds a record for every such
\* transaction and for no other, and a single transaction of an unknown
\* player gives no record.
C13_CandidateIffValid ==
    pc = "proc_done" =>
        /\ \A k \in 1..Len(transactions) :
              PassesFilter(transactions[k], validPlayers,
                           ParseTeamIds(validTeamsCsv))
                  <=> SpecCandidate(transactions[k])
        /\ \A k \in 1..Len(transactions) :
              SpecCandidate(transactions[k]) =>
                  \E i \in 1..Len(records) : SameTriple(records[i], transactions[k])
        /\ \A i \in 1..Len(records) : \E k \in 1..Len(transactions) :
              SpecCandidate(transactions[k]) /\ SameTriple(records[i], transactions[k])
        /\ (Len(transactions) = 1 /\ transactions[1].personId \notin validPlayers)
              => Len(records) = 0

\* ------------------------------------------------------------------ C14
\* C14: no record of a fetch aborts the run, a null element included: the
\* filter never throws, every valid record of the same fetch is projected,
\* and a run that got as far as the filter ends in success unless the
\* upsert fails.
C14_MalformedRecordNeverAborts ==
    /\ failedAt # "filter"
    /\ (processCalled /\ pc \in {"connect", "notifyOk", "done"}
            /\ failedAt = "none") =>
          \A k \in 1..Len(transactions) :
              (~transactions[k].isNull
                  /\ PassesFilter(transactions[k], validPlayers,
                                  ParseTeamIds(validTeamsCsv)))
              => \E i \in 1..Len(records) : SameTriple(records[i], transactions[k])
    /\ (pc = "done" /\ processCalled /\ failedAt # "upsert") =>
          result.status = "success"

\* ------------------------------------------------------------------ C15
\* The team query of this run returned, with no team.
EmptyTeamsLoaded ==
    /\ pc \in {"players", "fetch", "connect", "begin", "batch", "commit",
                "rollback", "notifyOk", "catch", "done"}
    /\ failedAt \notin {"audit", "window"}
    /\ error # "TeamsQueryFailed"
    /\ Len(validTeamsCsv) = 0

\* The player query of this run returned, with no player.
EmptyPlayersLoaded ==
    /\ pc \in {"fetch", "connect", "begin", "batch", "commit", "rollback",
                "notifyOk", "catch", "done"}
    /\ failedAt \notin {"audit", "window"}
    /\ error \notin {"TeamsQueryFailed", "NoValidTeams", "PlayersQueryFailed"}
    /\ validPlayers = {}

\* C15 as amended: when a catalog query returns no team or no player the
\* run fails with that error, issues no request to the transaction source
\* and persists nothing; outside the local environment one failure
\* notification carrying the error is published, in the local environment
\* none.
C15_EmptyCatalogIsFatal ==
    (EmptyTeamsLoaded \/ EmptyPlayersLoaded) =>
        /\ pc \in {"catch", "done"}
        /\ failedAt = "catalog"
        /\ error = IF EmptyTeamsLoaded THEN "NoValidTeams" ELSE "NoValidPlayers"
        /\ fetchCount = 0
        /\ ~upsertCalled
        /\ table = tableBefore
        /\ pc = "done" =>
              /\ result.status = "failed"
              /\ result.error = error
              /\ environment # "local" => (ErrorNotified /\ Len(notifications) = 1)
              /\ environment = "local" => notifications = <<>>

\* A hosted run ended by an empty player catalog, without a fetch, with its
\* failure notification published.
C15_Witness ==
    /\ pc = "done"
    /\ EmptyPlayersLoaded
    /\ Len(validTeamsCsv) > 0
    /\ environment = "lambda"
    /\ result.error = "NoValidPlayers"
    /\ ErrorNotified
    /\ fetchCount = 0

\* C15 as stated: every run whose catalog is empty fails before the fetch
\* and the upsert and emits a failure notification.
C15_Original ==
    (pc = "done" /\ (EmptyTeamsLoaded \/ EmptyPlayersLoaded)) =>
        /\ result.status = "failed"
        /\ fetchCount = 0
        /\ ~upsertCalled
        /\ ErrorNotified

\* ------------------------------------------------------------------ C16
\* The request of this run ended in a timeout, a status outside 200..299,
\* or a body that is not JSON.
FetchWentWrong ==
    /\ fetchCount >= 1
    /\ \/ fetchTrace.aborted
       \/ fetchTrace.status # 0 /\ fetchTrace.status \notin 200..299
       \/ fetchTrace.body = "garbage"

\* C16: a run issues at most one request to the transaction source; when
\* the request times out, is answered with a status outside 200..299 or with
\* a body that is not JSON, the run fails with that error, without filtering
\* or upserting, and issues no second request.
C16_FetchFailsRunNoRetry ==
    /\ fetchCount <= 1
    /\ FetchWentWrong =>
          /\ pc \in {"catch", "done"}
          /\ failedAt = "fetch"
          /\ error \in {"FetchTimeout", "HttpError", "JsonError"}
          /\ ~processCalled
          /\ ~upsertCalled
          /\ table = tableBefore
          /\ pc = "done" => (result.status = "failed" /\ result.error = error)

\* A run ended by a response with status 500, after its only request.
C16_Witness ==
    /\ pc = "done"
    /\ fetchCount = 1
    /\ fetchTrace.status = 500
    /\ result.status = "failed"
    /\ result.error = "HttpError"

\* ------------------------------------------------------------------ C17
\* C17: the time from issuing the request until fetchMLBTransactions has
\* returned the parsed body or thrown never exceeds the 30 s timeout, and a
\* fetch that reached the timeout was aborted and failed the run.
C17_WholeFetchBounded ==
    pc \in {"fetch_returned", "fetch_threw"} =>
        /\ fetchOutcome.elapsedMs <= API_TIMEOUT
        /\ fetchOutcome.elapsedMs >= API_TIMEOUT =>
              (fetchOutcome.aborted /\ pc = "fetch_threw")

\* ------------------------------------------------------------------ C18
\* Connections of this run that a database function is holding.
ConnInUse == connOpen

C20_SurvivorsPersisted ==
    (pc = "done" /\ result.status = "success") =>
        /\ \A i \in 1..Len(records) : \E j \in 1..Len(table) :
              /\ Matches(table[j], records[i])
              /\ table[j].MLBTeam = records[i].MLBTeam
              /\ table[j].Description = records[i].Description
        /\ (tableBefore = <<>> /\ Len(records) = 1) =>
              /\ result.recordsInserted = 1
              /\ result.recordsUpdated = 0
              /\ table = records

\* ------------------------------------------------------------------ C19
\* The (player, date) keys both runs have a record of.
BothCommitted ==
    /\ Len(upserts) = 2
    /\ upserts[1].pc = "done"
    /\ upserts[2].pc = "done"

KeyOfBoth(rec) ==
    \A r \in Runs : \E k \in 1..Len(upserts[r].records) :
        Matches(upserts[r].records[k], rec)

StageSuccessors(stage) ==
    CASE stage = "idle" -> {"audit"}
      [] stage = "audit" -> {"window", "catch"}
      [] stage = "window" -> {"teams", "catch"}
      [] stage = "teams" -> {"players", "catch"}
      [] stage = "players" -> {"fetch", "catch"}
      [] stage = "fetch" -> {"notifyOk", "connect", "catch"}
      [] stage = "connect" -> {"begin", "catch"}
      [] stage = "begin" -> {"batch", "catch"}
      [] stage = "batch" -> {"batch", "commit", "rollback"}
      [] stage = "commit" -> {"notifyOk", "rollback"}
      [] stage = "rollback" -> {"catch"}
      [] stage = "notifyOk" -> {"done"}
      [] stage = "catch" -> {"done"}
      [] stage = "done" -> {"idle"}
      [] OTHER -> {}

\* C21 as amended: every run passes through its stages in the order write
\* audit-log entry, resolve window, load catalogs, fetch, then early exit
\* or filter, deduplicate and upsert, then notify, any stage being able to
\* go to the failure notification; the audit-log entry is written before
\* the window is resolved, the window is resolved only after that entry was
\* written, and requests, table changes and notifications happen only in
\* their stages.
C21_StagesInOrder ==
    [][/\ pc' \in StageSuccessors(pc)
       /\ auditLog' # auditLog =>
             (pc = "audit" /\ pc' = "window" /\ startDate = Absent)
       /\ pc' = "window" => auditLog' = auditLog + 1
       /\ (startDate' # startDate /\ pc # "done") => pc = "window"
       /\ fetchCount' > fetchCount => pc = "fetch"
       /\ processCalled' /\ ~processCalled => pc = "fetch"
       /\ upsertCalled' /\ ~upsertCalled => pc = "connect"
       /\ table' # table => pc \in {"commit", "rollback"}
       /\ Len(notifications') > Len(notifications) =>
             pc \in {"notifyOk", "catch"}]_vars

\* A run given a start date after its end date has written its audit-log
\* entry and was then ended by the validation of the window.
C21_Witness ==
    /\ pc = "done"
    /\ runs = 1
    /\ BadWindowInput
    /\ failedAt = "window"
    /\ auditLog = 1
    /\ fetchCount = 0

\* C21 as stated: the audit-log entry of a run is written only after its
\* window has been resolved and validated, and a run with an invalid window
\* writes none.
C21_Original ==
    runs = 1 =>
        /\ auditLog = 1 => (startDate # Absent \/ pc \in {"catch", "done"})
        /\ BadWindowInput => auditLog = 0

\* ------------------------------------------------------------------ C22
\* C22 as amended: a run whose audit-log write did not succeed goes to the
\* catch block with that error; it loads no catalog, opens no connection
\* but the one of the write, issues no request, upserts nothing and ends
\* failed with that error, after one failure notification outside the
\* local environment and none in it.
C22_AuditFailureIsFatal ==
    [][/\ (pc = "audit" /\ auditLog' = auditLog) =>
             (pc' = "catch" /\ failedAt' = "audit"
                /\ error' = "AuditLogFailure")
       /\ failedAt' = "audit" =>
             /\ pc' \in {"catch", "done"}
             /\ validTeamsCsv' = <<>>
             /\ validPlayers' = {}
             /\ connOpened' <= 1
             /\ connOpen' = 0
             /\ fetchCount' = 0
             /\ ~processCalled'
             /\ ~upsertCalled'
             /\ table' = tableBefore'
             /\ pc' = "done" =>
                   /\ result'.status = "failed"
                   /\ result'.error = "AuditLogFailure"
                   /\ environment' # "local" =>
                         (ErrorNotified' /\ Len(notifications') = 1)
                   /\ environment' = "local" => notifications' = <<>>]_vars

\* A hosted run whose audit-log insert failed on an open connection: ended
\* failed, notified, without a catalog load.
C22_Witness ==
    /\ pc = "done"
    /\ failedAt = "audit"
    /\ connOpened = 1
    /\ environment = "lambda"
    /\ ErrorNotified
    /\ result.error = "AuditLogFailure"
    /\ validTeamsCsv = <<>>

\* C22 as stated: a run whose audit-log write failed ends failed after a
\* failure notification, in every environment, without a catalog load, a
\* fetch or an upsert.
C22_Original ==
    (pc = "done" /\ failedAt = "audit") =>
        /\ result.status = "failed"
        /\ result.error = "AuditLogFailure"
        /\ ErrorNotified
        /\ validTeamsCsv = <<>>
        /\ validPlayers = {}
        /\ fetchCount = 0
        /\ ~upsertCalled

\* ------------------------------------------------------------------ C23
\* C23: no step of any run removes a row of the committed table or changes
\* the (player, date) of a row, and the rows a step adds have keys that no
\* row had before it: a key once present stays, its rows are only updated.
C23_RowsNeverDeleted ==
    [][/\ Len(table') >= Len(table)
       /\ \A i \in 1..Len(table) : Matches(table'[i], table[i])
       /\ \A j \in (Len(table) + 1)..Len(table') :
             \A i \in 1..Len(table) : ~Matches(table[i], table'[j])]_vars

\* A second run found rows in the table, updated one of them and created a
\* row for a key that was not there.
C23_Witness ==
    /\ pc = "done"
    /\ runs = 2
    /\ result.status = "success"
    /\ tableBefore # <<>>
    /\ totalUpdated >= 1
    /\ totalInserted >= 1
    /\ Len(table) = Len(tableBefore) + totalInserted

\* ------------------------------------------------------------------ C24
\* C24 as amended: each bound that its source does not supply defaults by
\* itself, the start to yesterday and the end to tomorrow; with neither
\* supplied the window is [yesterday, tomorrow] and passes the validation;
\* a bound supplied in the payload is the bound of the window in the
\* hosted environment, and in the local environment the bounds come from
\* START_DATE and END_DATE and the payload is not read.
C24_WindowDefaults ==
    pc \in {"window_done", "window_threw"} =>
        LET s == IF environment = "local" THEN processEnv.START_DATE
                 ELSE event.startDate
            e == IF environment = "local" THEN processEnv.END_DATE
                 ELSE event.endDate
        IN  /\ s # Absent => startDate = s
            /\ e # Absent => endDate = e
            /\ s = Absent =>
                  (startDate.iso /\ DateParse(startDate) = now - 1)
            /\ e = Absent => (endDate.iso /\ DateParse(endDate) = now + 1)
            /\ (s = Absent /\ e = Absent) =>
                  (pc = "window_done"
                     /\ DateParse(startDate) <= DateParse(endDate))

\* A hosted run on the leap day with an empty payload: the window is from
\* 28 February to 1 March and is accepted.
C24_Witness ==
    /\ pc = "window_done"
    /\ environment = "lambda"
    /\ event = NoEvent
    /\ now = 60
    /\ startDate = DateStr(TRUE, 2, 28)
    /\ endDate = DateStr(TRUE, 3, 1)

\* C24 as stated: a bound supplied in the payload is the bound of the
\* window in every environment, and the defaults are as above.
C24_Original ==
    pc \in {"window_done", "window_threw"} =>
        /\ event.startDate # Absent => startDate = event.startDate
        /\ event.endDate # Absent => endDate = event.endDate
        /\ event = NoEvent =>
              (DateParse(startDate) = now - 1 /\ DateParse(endDate) = now + 1
                 /\ pc = "window_done")

\* ---------------------------------------------------------------- C25
\* The position in `handled` at which the handling of an update first
\* completed, 0 when it has not completed.
FirstHandled(u) ==
    LET P == {p \in 1..Len(handled) : handled[p].ok /\ handled[p].update = u}
    IN  IF P = {} THEN 0 ELSE CHOOSE p \in P : \A q \in P : p <= q

\* Two invocations of the consumer are handling updates of one sender.
HandledConcurrently(kinds) ==
    \E c, d \in Consumers :
        /\ c # d
        /\ consumers[c].batch # <<>>
        /\ consumers[d].batch # <<>>
        /\ Current(c).from = Current(d).from
        /\ Current(c).kind \in kinds
        /\ Current(d).kind \in kinds

\* An update was handled before an update of the same sender that the
\* webhook accepted and queued earlier.
HandledOutOfOrder(kinds) ==
    \E i, j \in 1..Len(accepted) :
        /\ i < j
        /\ accepted[i].queued
        /\ accepted[j].queued
        /\ accepted[i].update.from = accepted[j].update.from
        /\ accepted[i].update.kind \in kinds
        /\ accepted[j].update.kind \in kinds
        /\ FirstHandled(accepted[j].update) # 0
        /\ \/ FirstHandled(accepted[i].update) = 0
           \/ FirstHandled(accepted[i].update) > FirstHandled(accepted[j].update)

\* C25: every queued update is in the message group of its sender, no two
\* updates of one user are handled at the same time, and the handling of an
\* update completes only after the handling of the updates of the same user
\* that the webhook accepted earlier.
C25_PerUserOrder ==
    /\ \A i \in 1..Len(queue) : queue[i].group = queue[i].update.from
    /\ ~HandledConcurrently(UpdateKinds)
    /\ ~HandledOutOfOrder(UpdateKinds)

\* What holds of the code: the updates that carry `message` or
\* `callback_query` are grouped by sender and handled in order, one at a time.
C25_OrderWithinSenderGroups ==
    /\ \A i \in 1..Len(queue) :
          queue[i].update.kind \in {"message", "callback_query"}
              => queue[i].group = queue[i].update.from
    /\ ~HandledConcurrently({"message", "callback_query"})
    /\ ~HandledOutOfOrder({"message", "callback_query"})

\* A user's message and the same user's edit are handled by two invocations
\* at the same time.
C25_EditConcurrent ==
    \E c, d \in Consumers :
        /\ c # d
        /\ consumers[c].batch # <<>>
        /\ consumers[d].batch # <<>>
        /\ Current(c).from = Current(d).from
        /\ Current(c).kind = "message"
        /\ Current(d).kind = "edited_message"

\* ---------------------------------------------------------------- C29
\* C29: an invocation of the webhook handler without a body returns 400 and
\* leaves the queue alone; one with a body returns 200 exactly when its one
\* SendMessage call returned, and 500 otherwise, which covers the body that
\* cannot be parsed (nothing is sent) and the send that fails; the handler
\* always returns a response.
C29_WebhookStatus ==
    [][webhookResponse'.n # webhookResponse.n =>
          LET r == webhookResponse'
          IN  /\ r.statusCode \in {200, 400, 500}
              /\ r.sent \in {0, 1}
              /\ r.body = "absent"
                    => r.statusCode = 400 /\ r.sent = 0 /\ queue' = queue
              /\ r.body # "absent"
                    => /\ r.statusCode \in {200, 500}
                       /\ r.statusCode = 200 <=> r.sent = 1
              /\ r.body \in {"garbage", "null"}
                    => r.statusCode = 500 /\ r.sent = 0 /\ queue' = queue
              /\ r.statusCode = 200
                    => /\ Len(accepted') = Len(accepted) + 1
                       /\ Len(queue') <= Len(queue) + 1
              /\ r.statusCode # 200 => accepted' = accepted]_vars

\* A request was refused (400 or 500) and a later one, an update, was
\* answered 200 after its message was put on the queue.
C29_Witness ==
    /\ webhookResponse.n >= 2
    /\ webhookResponse.body = "update"
    /\ webhookResponse.statusCode = 200
    /\ webhookResponse.sent = 1
    /\ Len(accepted) = 1
    /\ Len(queue) >= 1

\* ---------------------------------------------------------------- C26
\* The number of space characters of a text.
RECURSIVE SpaceCountFrom(_, _)
SpaceCountFrom(text, i) ==
    IF i > Len(text) THEN 0
    ELSE (IF text[i].ch = " " THEN text[i].n ELSE 0) + SpaceCountFrom(text, i + 1)

SpaceCount(text) == SpaceCountFrom(text, 1)

\* C26: registerUser is called exactly when the text has three
\* space-separated parts (two spaces), a username of at most 16 characters
\* and a token of 32 characters; every other command gets one reply and no
\* database call: the format hint, or 'username is too long (max 16 chars)',
\* or 'token is not the expected length (32 chars)', the username being
\* checked before the token.
C26_RegisterValidated ==
    pc \in {"register_user", "register_done"} =>
        LET parts      == split(messageText)
            threeParts == SpaceCount(messageText) = 2
        IN  /\ threeParts <=> Len(parts) = 3
            /\ registration.calls <= 1
            /\ registration.calls = 1
                  <=> threeParts /\ parts[2] <= 16 /\ parts[3] = 32
            /\ ~threeParts => replies = <<FormatHint>>
            /\ threeParts /\ parts[2] > 16 => replies = <<UsernameTooLong>>
            /\ threeParts /\ parts[2] <= 16 /\ parts[3] # 32
                  => replies = <<TokenWrongLength>>

\* A command whose username and token are both invalid was answered with
\* the username message, without a database call.
C26_Witness ==
    /\ pc = "register_done"
    /\ split(messageText) = <<9, 17, 33>>
    /\ replies = <<UsernameTooLong>>
    /\ registration.calls = 0

\* ---------------------------------------------------------------- C27
\* C27: a call of registerUser returns without throwing; when the connection
\* or the stored procedure failed its result has success = false; and a pool
\* that was opened has been closed when it returns, on the success path and
\* on the failure paths.
C27_RegisterUserNeverThrows ==
    pc = "register_done" /\ registration.calls = 1 =>
        /\ ~registration.threw
        /\ registration.failed # "none" <=> ~registration.success
        /\ registration.closed = registration.opened
        /\ registration.failed # "connect" <=> registration.opened = 1

\* The stored procedure failed on an open pool: the result is a failure and
\* the pool is closed.
C27_Witness ==
    /\ pc = "register_done"
    /\ registration.failed = "execute"
    /\ ~registration.success
    /\ registration.opened = 1
    /\ registration.closed = 1

\* ---------------------------------------------------------------- C28
\* The text without the spaces at its ends.
Trim(s) ==
    LET I == {i \in 1..Len(s) : s[i] # " "}
    IN  IF I = {} THEN <<>>
        ELSE SubSeq(s, CHOOSE i \in I : \A j \in I : i <= j,
                       CHOOSE i \in I : \A j \in I : i >= j)

\* The text after the first colon, <<>> when there is no colon.
AfterFirstColon(s) ==
    LET I == {i \in 1..Len(s) : s[i] = ":"}
    IN  IF I = {} THEN <<>>
        ELSE SubSeq(s, (CHOOSE i \in I : \A j \in I : i <= j) + 1, Len(s))

ErrorUnknown == <<"Registration failed, error unknown.">>

\* The message the tests of registerUser expect of a failure
\* (messageConsumer.test.ts:127-259).
ExpectedFailureMessage(failed, errorMessage) ==
    IF failed = "connect" \/ Trim(AfterFirstColon(errorMessage)) = <<>>
    THEN ErrorUnknown
    ELSE Trim(AfterFirstColon(errorMessage))

\* C28: the message of a failed registration is the trimmed text after the
\* first colon of the error message when that text is not empty, and
\* 'Registration failed, error unknown.' otherwise and when the connection
\* failed.
C28_FailureMessage ==
    pc = "register_done" /\ registration.calls = 1 /\ ~registration.success =>
        registration.message =
            ExpectedFailureMessage(registration.failed, registration.error)

\* ---------------------------------------------------------------- C30
\* C30: when a success notification is emitted, the upsert of the run has
\* committed every batch (the table is what the transaction wrote), or no
\* upsert was called because there was nothing to upsert; and when the run
\* then returns, the counts of the notification are those of its output.
C30_SuccessAfterCommit ==
    [][(/\ Len(notifications') = Len(notifications) + 1
        /\ notifications'[Len(notifications')].kind = "success")
          => LET n == notifications'[Len(notifications')]
             IN  /\ pc = "notifyOk"
                 /\ IF upsertCalled
                    THEN /\ table = work
                         /\ chunkStart > Len(records)
                         /\ connOpen = 0
                         /\ ~mergeFailed
                    ELSE Len(records) = 0
                 /\ table' = table
                 /\ pc' = "done"
                       => /\ result'.status = "success"
                          /\ n.counts.transactionsFound = result'.transactionsFound
                          /\ n.counts.recordsProcessed = result'.recordsProcessed
                          /\ n.counts.recordsInserted = result'.recordsInserted
                          /\ n.counts.recordsUpdated = result'.recordsUpdated]_vars

\* A run that inserted and updated rows has committed, notified and
\* returned its counts.
C30_Witness ==
    /\ pc = "done"
    /\ result.status = "success"
    /\ upsertCalled
    /\ result.recordsInserted >= 1
    /\ result.recordsUpdated >= 1
    /\ notifications # <<>>
    /\ notifications[Len(notifications)].kind = "success"
    /\ notifications[Len(notifications)].counts.recordsInserted = result.recordsInserted

\* ---------------------------------------------------------------- C31
\* The steps of a run: every action of the handler but its invocation and
\* the discarding of its locals. Each of them is an awaited call that
\* returns or fails, or synchronous code.
RunStep ==
    \/ LogCronExecution
    \/ ResolveWindow
    \/ FetchTeams
    \/ FetchPlayers
    \/ FetchTransactions
    \/ BulkConnect
    \/ BulkBegin
    \/ MergeBatch
    \/ MergeBatchFails
    \/ BulkCommit
    \/ BulkRollback
    \/ NotifySuccess
    \/ NotifyError

\* The table a run finds: empty, or with the row an earlier run wrote for
\* TxA.
LiveTables == {<<>>, <<StripId(Project(TxA))>>}

InitLive ==
    /\ pc = "idle"
    /\ runs = 0
    /\ environment = "lambda"
    /\ startInput = Absent
    /\ endInput = Absent
    /\ keyEnforced \in BOOLEAN
    /\ auditLog = 0
    /\ table \in LiveTables
    /\ tableBefore = table
    /\ replay = FALSE
    /\ last = NoLast
    /\ RunLocalsInit
    /\ lockRows = <<>>
    /\ upserts = <<>>
    /\ commitOrder = <<>>
    /\ fetchInput = NoFetchInput
    /\ fetchOutcome = NoFetchOutcome
    /\ event = NoEvent
    /\ processEnv = NoProcessEnv
    /\ now = Today
    /\ accepted = <<>>
    /\ queue = <<>>
    /\ dedupSeen = {}
    /\ consumers = <<>>
    /\ handled = <<>>
    /\ webhookResponse = NoResponse
    /\ messageText = <<>>
    /\ replies = <<>>
    /\ registration = NoRegistration

\* The one invocation that is followed to its end.
InvokeOnce == runs = 0 /\ Invoke

NextLive == InvokeOnce \/ RunStep

\* One run of the handler under the assumption that every external call
\* eventually returns or fails.
SpecLive == InitLive /\ [][NextLive]_vars /\ WF_vars(RunStep)

\* C31: a run that has started eventually ends, and it ends either with
\* the run output (success) or with the error re-raised (failed).
C31_RunsTerminate ==
    /\ (pc \notin {"idle", "done"}) ~> (pc = "done")
    /\ [](pc = "done" => result.status \in {"success", "failed"})

\* A run has gone through the whole batch loop and ended.
C31_Witness ==
    /\ pc = "done"
    /\ batchesApplied >= 2
    /\ result.status = "success"
    /\ result.recordsUpdated >= 1

C32_CountsBounded ==
    (pc = "done" /\ result.status = "success") =>
        /\ result.recordsProcessed <= result.transactionsFound
        /\ result.totalDbOperations = result.recordsInserted + result.recordsUpdated

\* ---------------------------------------------------------------- C33
\* The kinds of the notifications of the run, in order.
NotificationKinds == [i \in 1..Len(notifications) |-> notifications[i].kind]

\* C33 as amended: no run publishes more than one notification; in the
\* hosted environment a run that returns a result has published exactly the
\* success notification and a run that raises exactly the failure
\* notification; in the local environment a run publishes none.
C33_OneNotificationPerRun ==
    /\ Len(notifications) <= 1
    /\ (pc = "done" /\ environment # "local" /\ result.status = "success")
          => NotificationKinds = <<"success">>
    /\ (pc = "done" /\ environment # "local" /\ result.status = "failed")
          => NotificationKinds = <<"error">>
    /\ environment = "local" => notifications = <<>>

\* A hosted run that committed its upsert has published the success
\* notification and nothing else, although the publish failed.
C33_Witness ==
    /\ pc = "done"
    /\ environment = "lambda"
    /\ result.status = "success"
    /\ upsertCalled
    /\ NotificationKinds = <<"success">>
    /\ ~notifications[1].delivered

\* C33 as stated: every run that returns a result has attempted exactly a
\* success notification, and every run that raises exactly a failure
\* notification.
C33_Original ==
    /\ Len(notifications) <= 1
    /\ (pc = "done" /\ result.status = "success")
          => NotificationKinds = <<"success">>
    /\ (pc = "done" /\ result.status = "failed")
          => NotificationKinds = <<"error">>

\* ---------------------------------------------------------------- C34
\* The orders in which a list of n elements can be given.
InputOrders(n) ==
    {f \in [1..n -> 1..n] : \A i, j \in 1..n : i # j => f[i] # f[j]}

\* The set of the records of a list.
RecordSet(recs) == {recs[i] : i \in 1..Len(recs)}

\* Two transactions of the list that become candidates of one key with the
\* same source id.
SharesSourceId(txs) ==
    \E i, j \in 1..Len(txs) :
        /\ i # j
        /\ ~txs[i].isNull /\ ~txs[j].isNull
        /\ txs[i].id = txs[j].id
        /\ txs[i].personId = txs[j].personId
        /\ txs[i].toTeamId = txs[j].toTeamId
        /\ txs[i].date = txs[j].date

\* C34: processTransactions returns the same set of records for every order
\* of its input, also when two candidates of one key carry the same source
\* id.
C34_OrderIndependent ==
    pc = "proc_done" =>
        \A f \in InputOrders(Len(transactions)) :
            RecordSet(processTransactions(
                          [i \in 1..Len(transactions) |-> transactions[f[i]]],
                          validPlayers, validTeamsCsv))
                = RecordSet(records)

\* What holds of the code: the same when no two candidates of one key carry
\* the same source id.
C34_OrderIndependentDistinctIds ==
    (pc = "proc_done" /\ ~SharesSourceId(transactions)) =>
        \A f \in InputOrders(Len(transactions)) :
            RecordSet(processTransactions(
                          [i \in 1..Len(transactions) |-> transactions[f[i]]],
                          validPlayers, validTeamsCsv))
                = RecordSet(records)

\* ---------------------------------------------------------------- C35
\* The step of the catch block of the handler reports the error it caught:
\* the invocation ends with it and the failure notification, when one is
\* published, carries it.
CaughtErrorReported ==
    pc = "catch" =>
        /\ result'.error = error
        /\ Len(notifications') > Len(notifications) =>
               notifications'[Len(notifications')].error = error

\* A failure of transaction.begin() leaves bulkInsertTeamHistory with the
\* error of begin and without a rollback.
BeginErrorPropagated ==
    (pc = "begin" /\ pc' # "batch") =>
        /\ pc' = "catch"
        /\ error' = "BeginFailed"
        /\ table' = table

\* C35: the error that bulkInsertTeamHistory throws after a failed batch is
\* the error of that batch, also when the rollback fails, and it is the one
\* the failure notification carries; a failure of begin is thrown without a
\* rollback.
C35_BatchErrorPropagated ==
    [][/\ (pc = "rollback" /\ mergeFailed) =>
              (pc' = "catch" /\ error' = error)
       /\ BeginErrorPropagated
       /\ CaughtErrorReported]_vars

\* What holds of the code: the error of the batch is thrown unless the
\* rollback throws, and then the error of the rollback is.
C35_BatchOrRollbackError ==
    [][/\ (pc = "rollback" /\ mergeFailed) =>
              (pc' = "catch" /\ error' \in {error, "RollbackFailed"})
       /\ BeginErrorPropagated
       /\ CaughtErrorReported]_vars

\* ---------------------------------------------------------------- C36
\* The fetch returned transactions, processTransactions returned, and no
\* record is left.
NothingSurvived ==
    /\ pc \in {"notifyOk", "done"}
    /\ processCalled
    /\ failedAt = "none"
    /\ Len(transactions) > 0
    /\ Len(records) = 0

\* The run did nothing for the upsert: bulkInsertTeamHistory was not called,
\* the only connections are those of the audit log and of the two catalogs,
\* no batch was sent, and the table is as the run found it.
UpsertUntouched ==
    /\ ~upsertCalled
    /\ connOpened = 3
    /\ connOpen = 0
    /\ batches = <<>>
    /\ work = <<>>
    /\ table = tableBefore

\* What a run without survivors returns.
NothingSurvivedCounts ==
    /\ result.status = "success"
    /\ result.transactionsFound = Len(transactions)
    /\ result.recordsProcessed = 0
    /\ result.recordsInserted = 0
    /\ result.recordsUpdated = 0

\* C36: a run whose fetch returns transactions of which none survives the
\* filter opens no connection and no transaction for the upsert, returns
\* zero counts with transactionsFound the number fetched, and publishes the
\* success notification, except in the 'local' environment, which publishes
\* none.
C36_NothingSurvivedSkipsUpsert ==
    NothingSurvived =>
        /\ UpsertUntouched
        /\ pc = "done" =>
              /\ NothingSurvivedCounts
              /\ NotificationKinds =
                     IF environment = "local" THEN <<>> ELSE <<"success">>

C36_Witness ==
    /\ NothingSurvived
    /\ pc = "done"
    /\ environment = "lambda"
    /\ Len(transactions) >= 2
    /\ NotificationKinds = <<"success">>

\* C36 as stated: the run ends in a success notification in every
\* environment.
C36_Original ==
    (NothingSurvived /\ pc = "done") =>
        /\ UpsertUntouched
        /\ NothingSurvivedCounts
        /\ NotificationKinds = <<"success">>

\* ---------------------------------------------------------- SpecEnvironment
\* One run of the handler in each environment, given a trigger payload and
\* the START_DATE and END_DATE of its process.
EnvironmentEvents == {Event(sd, Absent) : sd \in {Absent, D1, BadDate}}
EnvironmentProcessEnvs == {ProcessEnv(sd, Absent) : sd \in {Absent, D2}}

InitEnvironment ==
    /\ pc = "idle"
    /\ runs = 0
    /\ environment \in {"local", "lambda"}
    /\ startInput = Absent
    /\ endInput = Absent
    /\ keyEnforced \in BOOLEAN
    /\ auditLog = 0
    /\ table \in LiveTables
    /\ tableBefore = table
    /\ replay = FALSE
    /\ last = NoLast
    /\ RunLocalsInit
    /\ lockRows = <<>>
    /\ upserts = <<>>
    /\ commitOrder = <<>>
    /\ fetchInput = NoFetchInput
    /\ fetchOutcome = NoFetchOutcome
    /\ event \in EnvironmentEvents
    /\ processEnv \in EnvironmentProcessEnvs
    /\ now = Today
    /\ accepted = <<>>
    /\ queue = <<>>
    /\ dedupSeen = {}
    /\ consumers = <<>>
    /\ handled = <<>>
    /\ webhookResponse = NoResponse
    /\ messageText = <<>>
    /\ replies = <<>>
    /\ registration = NoRegistration

\* The handler is invoked (handler.ts:209-216); the bounds it will read are
\* those of the source of its environment (226-234).
InvokeIn ==
    /\ pc = "idle"
    /\ runs = 0
    /\ startInput' = StartSource(environment, event, processEnv)
    /\ endInput' = EndSource(environment, event, processEnv)
    /\ replay' = FALSE
    /\ last' = NoLast
    /\ pc' = "audit"
    /\ runs' = runs + 1
    /\ tableBefore' = table
    /\ RunLocalsReset
    /\ UNCHANGED <<environment, keyEnforced, auditLog, table, lockRows,
                   upserts, commitOrder, fetchInput, fetchOutcome,
                   event, processEnv, now,
                   PipelineVars>>

NextEnvironment == InvokeIn \/ RunStep

SpecEnvironment == InitEnvironment /\ [][NextEnvironment]_vars

\* ---------------------------------------------------------------- C37
\* The run has resolved its window (handler.ts:226-234).
WindowResolved ==
    /\ pc \notin {"idle", "audit", "window"}
    /\ failedAt # "audit"

\* What the invocation ends with, as the stages left it: the counts of the
\* run, or the error that was caught.
RunOutcome ==
    IF failedAt = "none"
    THEN [status |-> "success", error |-> "none"] @@ Counts
    ELSE [NoResult EXCEPT !.status = "failed", !.error = error]

ConsumerStep ==
    \E c \in Consumers :
        ReceiveBatch(c) \/ HandleReturns(c) \/ HandleThrows(c)

\* The pipeline under the assumption that the queue goes on handing out the
\* messages it holds and that an invocation of the consumer goes on to its
\* end. Nothing is assumed of Telegram.
SpecQueueLive == InitQueue /\ [][NextQueue]_vars /\ WF_vars(ConsumerStep)

\* ---------------------------------------------------------------- C38
\* The updates Telegram can send within the bounds.
AllUpdates ==
    {Update(n, k, f, id) :
        n \in 1..MaxUpdates, k \in UpdateKinds, f \in Users,
        id \in 1..MaxUpdates}

\* The webhook answered 200 to the request that carried the update.
Acknowledged(u) == \E a \in 1..Len(accepted) : accepted[a].update = u

\* Two updates carry the same message, callback query or edit; Telegram
\* sends an update again, under a new update_id here, when the webhook did
\* not answer 200.
SameContent(u, v) == u.kind = v.kind /\ u.from = v.from /\ u.id = v.id

\* The update is, or has been, a record of an event of the consumer.
Delivered(u) ==
    \/ \E i \in 1..Len(queue) :
           queue[i].owner # 0 /\ SameContent(queue[i].update, u)
    \/ \E i \in 1..Len(handled) : SameContent(handled[i].update, u)

\* The queue kept the message of the update: its MessageDeduplicationId was
\* new to the queue.
Enqueued(u) ==
    \E a \in 1..Len(accepted) : accepted[a].update = u /\ accepted[a].queued

\* C38: an update that the webhook acknowledged with 200 is eventually
\* delivered to the message consumer; the deduplication of the queue drops
\* none.
C38_AcknowledgedDelivered ==
    \A u \in AllUpdates : Acknowledged(u) ~> Delivered(u)

\* What holds of the code: an acknowledged update whose message the queue
\* kept is eventually delivered.
C38_EnqueuedDelivered ==
    \A u \in AllUpdates : Enqueued(u) ~> Delivered(u)

\* ---------------------------------------------------------------- C39
\* An invocation of the consumer that holds an event takes a step.
ConsumerHandles(c) ==
    consumers[c].batch # <<>> /\ consumers'[c] # consumers[c]

\* The messages of the event of an invocation, as the queue holds them.
InFlight(q, c) == {i \in 1..Len(q) : q[i].owner = c}

\* C39: each step of an invocation of the consumer handles the one record
\* that follows, in the order of the event, the records it has handled; when
\* the handling fails the invocation ends with the error, the records after
\* it unhandled and every message of the event back in the queue; the
\* invocation returns, and the messages of the event are deleted, only after
\* the last record was handled.
C39_RecordsInEventOrder ==
    [][\A c \in Consumers : ConsumerHandles(c) =>
          LET con == consumers[c]
              h   == handled'[Len(handled')]
          IN  /\ Len(handled') = Len(handled) + 1
              /\ h.update = UpdateOf(con.batch[con.pos + 1])
              /\ (h.ok /\ con.pos + 1 < Len(con.batch)) =>
                     /\ consumers'[c] = [con EXCEPT !.pos = @ + 1]
                     /\ queue' = queue
              /\ (h.ok /\ con.pos + 1 = Len(con.batch)) =>
                     /\ consumers'[c] = IdleConsumer
                     /\ Len(queue') = Len(queue) - Len(con.batch)
                     /\ InFlight(queue', c) = {}
              /\ ~h.ok =>
                     /\ consumers'[c] = IdleConsumer
                     /\ Len(queue') = Len(queue)
                     /\ InFlight(queue', c) = {}
              /\ Len(queue') < Len(queue) =>
                     (h.ok /\ con.pos + 1 = Len(con.batch))]_vars

\* The handling of a record of an event of two records failed, the event
\* was delivered again, and the invocation that holds it has handled its
\* first record and not yet the second.
C39_Witness ==
    \E c \in Consumers :
        /\ Len(consumers[c].batch) = 2
        /\ consumers[c].pos = 1
        /\ \E i \in 1..Len(handled) :
              /\ ~handled[i].ok
              /\ handled[i].update \in
                     {UpdateOf(consumers[c].batch[k]) : k \in 1..2}
        /\ handled[Len(handled)].ok
        /\ handled[Len(handled)].update = UpdateOf(consumers[c].batch[1])

====
